---------------------------- MODULE Spec2Model ----------------------------
(***************************************************************************)
(* Model of the shortbot core: the Wallet / Position / Order / Portfolio   *)
(* ledger (bot/core/portfolio.py), the position-opening path of the paper  *)
(* exchange (bot/core/demo_exchange.py) and the TradeEngine life cycle     *)
(* (bot/core/engine.py).                                                   *)
(*                                                                         *)
(* Decimal amounts are integers in units of 10^-4 USDT.  The ledger only   *)
(* adds, subtracts and multiplies Decimals, which is exact; the rates the  *)
(* paper exchange applies (0.001 spread, 0.05 margin, 0.0004 commission,   *)
(* 0.004 maintenance margin, 0.05 take profit) are applied with Rate, and  *)
(* the ticker prices and quantities drawn below are multiples that keep    *)
(* every such product an integer.  Timestamps (updated_at, last_updated,   *)
(* closed_at) and uuid identities are not modelled.                        *)
(***************************************************************************)
EXTENDS Integers, Sequences, FiniteSets, TLC

VARIABLES
    wallet,      \* Portfolio.wallet : Wallet
    positions,   \* Portfolio.positions : symbol -> Position (a dict: partial)
    orders,      \* Portfolio.orders, in insertion order
    last,        \* the most recent ledger call: operation, arguments, result
    nops,        \* number of ledger calls made so far
    rt,          \* reserve/release bookkeeping: wallet before the last use_margin
    order,       \* one Order taking fills
    fills,       \* what has been filled into order so far: count, quantity, notional
    mode,        \* settings.trading_mode
    state,       \* TradeEngine.state
    running,     \* TradeEngine.running
    main_task,   \* TradeEngine.main_task: a task of tasks, or NoTask
    position_monitor_task,   \* TradeEngine.position_monitor_task
    tasks,       \* the asyncio tasks created by start(), in creation order
    caller,      \* the engine call the client coroutine is inside, if any
    entered,     \* the async context (__aenter__) has been entered
    start_called,\* start() has been called
    ncalls,      \* number of engine calls made by the client
    estep,       \* the engine step taken last
    exchange,    \* TradeEngine.exchange: "none", "open", or "closed" by disconnect()
    stop_emitted,\* a stop event has been emitted
    sweep,       \* the last emergency_stop() sweep: positions open, tried, closed,
                 \* and whether the ledger was consistent at each of its awaits
    ncycles,     \* scan cycles and monitor passes run on the current paper exchange
    max_concurrent_positions,   \* settings.strategy.max_concurrent_positions
    demo_balance,\* settings.demo_balance
    scan,        \* the last _process_scan_cycle: what it did, candidate by candidate
    emitted,     \* the drawdown_critical, emergency_stop and stop events, in order
    event_handlers,  \* TradeEngine.event_handlers: event kind -> listeners
    emission,    \* the emit_event in progress, or the last one
    risk,        \* one RiskManager
    strategy     \* one StrategyEngine and its last decision

ledgerVars == <<wallet, positions, orders, last, nops, rt>>

orderVars == <<order, fills>>

engineVars == <<mode, state, running, main_task, position_monitor_task, tasks,
                caller, entered, start_called, ncalls, estep, exchange,
                stop_emitted, sweep, ncycles, max_concurrent_positions, scan,
                emitted, demo_balance>>

vars == <<wallet, positions, orders, last, nops, rt, order, fills,
          mode, state, running, main_task, position_monitor_task, tasks,
          caller, entered, start_called, ncalls, estep, exchange,
          stop_emitted, sweep, ncycles, max_concurrent_positions, scan, emitted,
          demo_balance,
          event_handlers, emission, risk, strategy>>

\* the listeners of the engine, the risk manager and the strategy
unitVars == <<event_handlers, emission, risk, strategy>>

---------------------------------------------------------------------------
\* Bounds of the exploration

\* ledger calls explored per behaviour
MaxOps == 3

\* Order.fill calls explored per behaviour
MaxFills == 3

\* largest requested quantity, fill quantity and fill price of an Order
MaxQty == 3

\* engine calls made by the client per behaviour
MaxCalls == 2

\* scan cycles and monitor passes run on the paper exchange per behaviour
MaxCycles == 3

\* listeners registered for one event kind
MaxHandlers == 2

\* positions handed to on_position_closed
MaxCloses == 6

\* alerts kept in alert_history
MaxAlerts == 1

\* signals generate_short_signals computes
MaxSignals == 3

\* Decimal division rounds (half even) to the context precision, 28
\* significant digits; the model keeps this many decimal places of a quotient
DecimalPlaces == 3

---------------------------------------------------------------------------
\* Inputs

Symbols == {"ETHUSDT", "SOLUSDT"}

\* DemoExchange._ensure_ticker: base price of a symbol (10^-4 USDT), the
\* price of a ticker when create_order is the first call that names it
BasePrice(symbol) ==
    IF symbol = "ETHUSDT" THEN 25000000
    ELSE IF symbol = "BNBUSDT" THEN 3000000
    ELSE IF symbol = "LINKUSDT" THEN 150000
    ELSE 1000000

\* Prices the random walk of DemoTicker.update_price can show, within its
\* clamp [0.5 * base, 2 * base]: a fall beyond the take-profit distance, the
\* base price, and a rise, beyond the liquidation distance for ETHUSDT and
\* SOLUSDT and short of it for BNBUSDT and XRPUSDT.
TickerPrices(symbol) ==
    IF symbol = "ETHUSDT" THEN {23500000, 25000000, 25500000}
    ELSE IF symbol = "BNBUSDT" THEN {1500000, 3000000, 3006000}
    ELSE IF symbol = "XRPUSDT" THEN {500000, 1000000, 1002000}
    ELSE IF symbol = "LINKUSDT" THEN {75000, 150000, 225000}
    ELSE {500000, 1000000, 1500000}

Quantities == {5, 10}

\* A symbol the exchange does not list: it is in neither the base_prices of
\* _ensure_ticker nor the tickers the exchange reports
UnlistedSymbols == {"INVALID"}

\* DemoExchange._ensure_ticker: a symbol without a base price gets
\* random.uniform(1.0, 100.0); the two ends and a value between (10^-4 USDT)
RandomBasePrices == {10000, 370000, 1000000}

Sides == {"SELL", "BUY"}

\* settings.demo_balance (default 1000.0 USDT)
DemoBalance == 10000000

\* a demo_balance of 5000 USDT (the setting takes 100 to 100000)
LargeDemoBalance == 50000000

\* the engine's scan list, DemoExchange.get_top_gainers
TopGainers == << "ETHUSDT", "BNBUSDT", "XRPUSDT", "SOLUSDT", "LINKUSDT" >>

EngineSymbols == {TopGainers[k] : k \in DOMAIN TopGainers}

\* the symbols whose _check_short_signal is true in one scan cycle: none of
\* them, or all
SignalSets == { {}, EngineSymbols }

\* settings.strategy.position_size_usd in the scale of the prices above (the
\* margin of one position is a quarter of the starting balance), and the
\* smallest order quantity, one lot
PositionSize == 50000000

MinQuantity == 1

\* settings.strategy.max_concurrent_positions
MaxConcurrentPositions == 5

\* the settings of max_concurrent_positions examined: a ceiling below the
\* number of candidates of a scan, and the default
LowPositionsSetting == 2

MaxPositionsSettings == {LowPositionsSetting, MaxConcurrentPositions}

\* settings.risk.daily_shutdown_threshold, per cent
ShutdownThreshold == 20

\* x * num / den for a Decimal rate num/den
Rate(x, num, den) == (x * num) \div den

Max(a, b) == IF a >= b THEN a ELSE b

---------------------------------------------------------------------------
\* Wallet

NewWallet ==
    [ balance |-> 0, available_balance |-> 0, margin_balance |-> 0,
      unrealized_pnl |-> 0, daily_start_balance |-> 0, daily_pnl |-> 0,
      daily_trades |-> 0, total_realized_pnl |-> 0, total_commission |-> 0,
      win_count |-> 0, loss_count |-> 0 ]

\* reset_daily taking the new baseline and keeping the day's PnL
reset_daily_keeps_pnl(w) ==
    [w EXCEPT !.daily_start_balance = w.balance, !.daily_trades = 0]

\* Wallet.reset_daily
reset_daily(w) ==
    [w EXCEPT !.daily_start_balance = w.balance, !.daily_pnl = 0, !.daily_trades = 0]

\* use_margin deducting what is there when the balance is short
use_margin_partial(w, amount) ==
    IF w.available_balance >= amount
    THEN [ ret |-> TRUE,
           wallet |-> [w EXCEPT !.available_balance = @ - amount,
                                !.margin_balance = @ + amount] ]
    ELSE [ ret |-> FALSE,
           wallet |-> [w EXCEPT !.available_balance = 0,
                                !.margin_balance = @ + w.available_balance] ]

\* Wallet.use_margin: result and the wallet afterwards
use_margin(w, amount) ==
    IF w.available_balance >= amount
    THEN [ ret |-> TRUE,
           wallet |-> [w EXCEPT !.available_balance = @ - amount,
                                !.margin_balance = @ + amount] ]
    ELSE [ ret |-> FALSE, wallet |-> w ]

\* free_margin that forgets to credit the available balance
free_margin_nocredit(w, amount) ==
    [w EXCEPT !.margin_balance = Max(0, @ - amount)]

\* Wallet.free_margin
free_margin(w, amount) ==
    [w EXCEPT !.margin_balance = Max(0, @ - amount),
              !.available_balance = @ + amount]

update_unrealized_pnl(w, total_unrealized) ==
    [w EXCEPT !.unrealized_pnl = total_unrealized]

\* realize_pnl counting a net PnL of zero as a win
realize_pnl_zero_wins(w, pnl, commission) ==
    LET net_pnl == pnl - commission IN
    [w EXCEPT !.balance = @ + net_pnl,
              !.available_balance = @ + net_pnl,
              !.total_realized_pnl = @ + net_pnl,
              !.total_commission = @ + commission,
              !.daily_pnl = @ + net_pnl,
              !.daily_trades = @ + 1,
              !.win_count = IF net_pnl >= 0 THEN @ + 1 ELSE @,
              !.loss_count = IF net_pnl >= 0 THEN @ ELSE @ + 1]

\* Wallet.realize_pnl
realize_pnl(w, pnl, commission) ==
    LET net_pnl == pnl - commission IN
    [w EXCEPT !.balance = @ + net_pnl,
              !.available_balance = @ + net_pnl,
              !.total_realized_pnl = @ + net_pnl,
              !.total_commission = @ + commission,
              !.daily_pnl = @ + net_pnl,
              !.daily_trades = @ + 1,
              !.win_count = IF net_pnl > 0 THEN @ + 1 ELSE @,
              !.loss_count = IF net_pnl > 0 THEN @ ELSE @ + 1]

---------------------------------------------------------------------------
\* Position

\* calculate_unrealized_pnl with the long formula for both sides
calculate_unrealized_pnl_as_long(p) ==
    (p.mark_price - p.entry_price) * p.size

calculate_unrealized_pnl(p) ==
    IF p.side = "SHORT"
    THEN (p.entry_price - p.mark_price) * p.size
    ELSE (p.mark_price - p.entry_price) * p.size

update_mark_price(p, new_price) ==
    LET q == [p EXCEPT !.mark_price = new_price] IN
    [q EXCEPT !.unrealized_pnl = calculate_unrealized_pnl(q)]

\* maintenance_margin_rate = 0.004
calculate_liquidation_price(p) ==
    IF p.side = "SHORT"
    THEN p.entry_price + Rate(p.entry_price, 4, 1000)
    ELSE p.entry_price - Rate(p.entry_price, 4, 1000)

\* settings.strategy.tp_percentage = 5.0
set_take_profit(p) ==
    IF p.side = "SHORT"
    THEN [p EXCEPT !.tp_price = p.entry_price - Rate(p.entry_price, 5, 100)]
    ELSE [p EXCEPT !.tp_price = p.entry_price + Rate(p.entry_price, 5, 100)]

check_take_profit(p) ==
    IF p.side = "SHORT" THEN p.mark_price <= p.tp_price
                        ELSE p.mark_price >= p.tp_price

check_liquidation(p) ==
    IF p.side = "SHORT" THEN p.mark_price >= p.liquidation_price
                        ELSE p.mark_price <= p.liquidation_price

\* Position.close
close(p, close_price, commission) ==
    LET gross == IF p.side = "SHORT"
                 THEN (p.entry_price - close_price) * p.size
                 ELSE (close_price - p.entry_price) * p.size
    IN [p EXCEPT !.status = "CLOSED",
                 !.realized_pnl = gross - commission,
                 !.total_commission = @ + commission,
                 !.unrealized_pnl = 0]

\* liquidate booking the loss at the mark price instead of the margin
liquidate_at_mark(p) ==
    [p EXCEPT !.status = "LIQUIDATED",
              !.realized_pnl = calculate_unrealized_pnl(p),
              !.unrealized_pnl = 0]

\* Position.liquidate
liquidate(p) ==
    [p EXCEPT !.status = "LIQUIDATED",
              !.realized_pnl = 0 - p.margin,
              !.unrealized_pnl = 0]

---------------------------------------------------------------------------
\* Order

RECURSIVE Pow10(_)
Pow10(n) == IF n = 0 THEN 1 ELSE 10 * Pow10(n - 1)

\* avg_price is kept as an integer number of 10^-DecimalPlaces
Scale == Pow10(DecimalPlaces)

\* avg_price = None
None == -1

\* Decimal quotient a / b of non-negative a and positive b, rounded half even
\* to the precision kept
DecimalDiv(a, b) ==
    LET q == a \div b
        r == a % b
    IN IF 2 * r > b \/ (2 * r = b /\ q % 2 = 1) THEN q + 1 ELSE q

NewOrder(quantity) ==
    [ quantity |-> quantity, filled_quantity |-> 0, avg_price |-> None,
      commission |-> 0, status |-> "NEW" ]

\* Order.fill; price and quantity are whole numbers
fill(o, quantity, price, commission) ==
    LET filled == o.filled_quantity + quantity
        avg == IF o.avg_price = None
               THEN price * Scale
               ELSE DecimalDiv(o.avg_price * (filled - quantity)
                                 + price * Scale * quantity, filled)
    IN [o EXCEPT !.filled_quantity = filled,
                 !.avg_price = avg,
                 !.commission = @ + commission,
                 !.status = IF filled >= o.quantity THEN "FILLED"
                            ELSE IF filled > 0 THEN "PARTIALLY_FILLED"
                            ELSE @]

---------------------------------------------------------------------------
\* Portfolio: operators over the pair (positions, wallet)

get_position(ps, symbol) == symbol \in DOMAIN ps

IsOpen(ps, symbol) == get_position(ps, symbol) /\ ps[symbol].status = "OPEN"

add_position(ps, symbol, position) ==
    [s \in DOMAIN ps \cup {symbol} |-> IF s = symbol THEN position ELSE ps[s]]

get_open_positions(ps) == {s \in DOMAIN ps : ps[s].status = "OPEN"}

RECURSIVE SumUnrealized(_, _)
SumUnrealized(ps, S) ==
    IF S = {} THEN 0
    ELSE LET s == CHOOSE x \in S : TRUE
         IN ps[s].unrealized_pnl + SumUnrealized(ps, S \ {s})

get_total_unrealized_pnl(ps) == SumUnrealized(ps, get_open_positions(ps))

\* close_position guarding only against a missing position
close_position_any_status(ps, w, symbol, close_price, commission) ==
    IF ~get_position(ps, symbol)
    THEN [ ret |-> FALSE, positions |-> ps, wallet |-> w ]
    ELSE LET position == close(ps[symbol], close_price, commission)
             w1 == free_margin(w, position.margin)
             w2 == realize_pnl(w1, position.realized_pnl, commission)
         IN [ ret |-> TRUE,
              positions |-> [ps EXCEPT ![symbol] = position],
              wallet |-> w2 ]

\* Portfolio.close_position
close_position(ps, w, symbol, close_price, commission) ==
    IF ~IsOpen(ps, symbol)
    THEN [ ret |-> FALSE, positions |-> ps, wallet |-> w ]
    ELSE LET position == close(ps[symbol], close_price, commission)
             w1 == free_margin(w, position.margin)
             w2 == realize_pnl(w1, position.realized_pnl, commission)
         IN [ ret |-> TRUE,
              positions |-> [ps EXCEPT ![symbol] = position],
              wallet |-> w2 ]

\* liquidate_position that does not book the loss in the wallet
liquidate_position_unrealized(ps, w, symbol) ==
    IF ~IsOpen(ps, symbol)
    THEN [ ret |-> FALSE, positions |-> ps, wallet |-> w ]
    ELSE [ ret |-> TRUE,
           positions |-> [ps EXCEPT ![symbol] = liquidate(ps[symbol])],
           wallet |-> w ]

\* Portfolio.liquidate_position
liquidate_position(ps, w, symbol) ==
    IF ~IsOpen(ps, symbol)
    THEN [ ret |-> FALSE, positions |-> ps, wallet |-> w ]
    ELSE LET position == liquidate(ps[symbol])
         IN [ ret |-> TRUE,
              positions |-> [ps EXCEPT ![symbol] = position],
              wallet |-> realize_pnl(w, position.realized_pnl, 0) ]

\* update_positions_mark_prices without the status test
update_positions_mark_prices_any_status(ps, w, prices) ==
    LET ps1 == [s \in DOMAIN ps |->
                  IF s \in DOMAIN prices
                  THEN update_mark_price(ps[s], prices[s])
                  ELSE ps[s]]
    IN [ positions |-> ps1,
         wallet |-> update_unrealized_pnl(w, get_total_unrealized_pnl(ps1)) ]

\* Portfolio.update_positions_mark_prices; prices is a dict symbol -> price
update_positions_mark_prices(ps, w, prices) ==
    LET ps1 == [s \in DOMAIN ps |->
                  IF s \in DOMAIN prices /\ ps[s].status = "OPEN"
                  THEN update_mark_price(ps[s], prices[s])
                  ELSE ps[s]]
    IN [ positions |-> ps1,
         wallet |-> update_unrealized_pnl(w, get_total_unrealized_pnl(ps1)) ]

---------------------------------------------------------------------------
\* DemoExchange.create_order

\* a market order filled at the ticker price, without the spread
get_market_price_no_spread(price, side) == price

\* DemoOrderBook.get_market_price: best bid for a sell, best ask for a buy,
\* spread_pct = 0.001 around the ticker price
get_market_price(price, side) ==
    IF side = "BUY" THEN price + Rate(price, 1, 1000)
                    ELSE price - Rate(price, 1, 1000)

NewPosition(symbol, side, qty, execution_price, mark, margin) ==
    LET p0 == [ symbol |-> symbol,
                side |-> IF side = "SELL" THEN "SHORT" ELSE "LONG",
                size |-> qty, entry_price |-> execution_price,
                mark_price |-> mark, liquidation_price |-> 0,
                status |-> "OPEN", margin |-> margin, unrealized_pnl |-> 0,
                realized_pnl |-> 0, total_commission |-> 0, tp_price |-> 0 ]
        p1 == [p0 EXCEPT !.liquidation_price = calculate_liquidation_price(p0)]
    IN set_take_profit(p1)

\* The market order of create_order, filled at once (Order.fill on a new order)
FilledOrder(symbol, side, qty, execution_price, commission) ==
    [ symbol |-> symbol, side |-> side, quantity |-> qty,
      filled_quantity |-> qty, avg_price |-> execution_price,
      commission |-> commission, status |-> "FILLED" ]

\* result: "ok" or the exception raised, and the ledger afterwards
create_order(ps, w, os, symbol, side, qty, price) ==
    LET execution_price == get_market_price(price, side)
        notional == qty * execution_price
        commission == Rate(notional, 4, 10000)
        required_margin == Rate(notional, 5, 100)
        placed == FilledOrder(symbol, side, qty, execution_price, commission)
        same == [ ret |-> FALSE, positions |-> ps, wallet |-> w, orders |-> os ]
    IN IF w.available_balance < required_margin + commission
       THEN same
       ELSE IF get_position(ps, symbol)
       THEN [same EXCEPT !.ret = TRUE, !.orders = Append(os, placed)]
       ELSE LET r == use_margin(w, required_margin + commission)
                position == NewPosition(symbol, side, qty, execution_price,
                                        price, required_margin)
            IN IF ~r.ret
               THEN [same EXCEPT !.orders = Append(os, placed)]
               ELSE [ ret |-> TRUE,
                      positions |-> add_position(ps, symbol, position),
                      wallet |-> r.wallet,
                      orders |-> Append(os, placed) ]

---------------------------------------------------------------------------
\* The ledger as a state machine: every public operation may be called, in
\* any order, with any of the inputs above.

NoPrices == [s \in {} |-> 0]

Call(op, symbol, a, b, ret, prices) ==
    [ op |-> op, symbol |-> symbol, a |-> a, b |-> b, ret |-> ret, prices |-> prices ]

NoRoundTrip == [ seq |-> "none", amount |-> 0, available_balance |-> 0,
                 margin_balance |-> 0, ok |-> FALSE ]

\* Amounts handed to use_margin / free_margin: nothing, the margin and
\* commission of the smallest position, and more than the whole balance.
Amounts == {0, 251748, 2 * DemoBalance}

\* with CommissionInputs: a net loss, a net gain and a net PnL of exactly zero
PnlInputs == {-249750, 1998}

CommissionInputs == {0, 1998}

\* DemoExchange.__init__: balance = available = demo_balance, reset_daily()
InitLedger ==
    /\ wallet = reset_daily([NewWallet EXCEPT !.balance = DemoBalance,
                                              !.available_balance = DemoBalance])
    /\ positions = [s \in {} |-> 0]
    /\ orders = << >>
    /\ last = Call("init", "", 0, 0, TRUE, NoPrices)
    /\ nops = 0
    /\ rt = NoRoundTrip

\* a new Order for the requested quantity
InitOrder(quantity) ==
    /\ order = NewOrder(quantity)
    /\ fills = [ n |-> 0, quantity |-> 0, notional |-> 0 ]

\* Order.fill(quantity, price) with a positive quantity
Fill(quantity, price) ==
    /\ fills.n < MaxFills
    /\ order' = fill(order, quantity, price, 0)
    /\ fills' = [ n |-> fills.n + 1,
                  quantity |-> fills.quantity + quantity,
                  notional |-> fills.notional + price * quantity ]
    /\ UNCHANGED <<ledgerVars, engineVars, unitVars>>

UseMargin(amount) ==
    /\ nops < MaxOps
    /\ LET r == use_margin(wallet, amount) IN
         /\ wallet' = r.wallet
         /\ last' = Call("use_margin", "", amount, 0, r.ret, NoPrices)
         /\ rt' = [ seq |-> "reserved", amount |-> amount,
                    available_balance |-> wallet.available_balance,
                    margin_balance |-> wallet.margin_balance, ok |-> r.ret ]
    /\ nops' = nops + 1
    /\ UNCHANGED <<positions, orders>>
    /\ UNCHANGED <<orderVars, engineVars, unitVars>>

FreeMargin(amount) ==
    /\ nops < MaxOps
    /\ wallet' = free_margin(wallet, amount)
    /\ last' = Call("free_margin", "", amount, 0, TRUE, NoPrices)
    /\ rt' = IF rt.seq = "reserved" /\ rt.amount = amount
             THEN [rt EXCEPT !.seq = "roundtrip"]
             ELSE NoRoundTrip
    /\ nops' = nops + 1
    /\ UNCHANGED <<positions, orders>>
    /\ UNCHANGED <<orderVars, engineVars, unitVars>>

RealizePnl(pnl, commission) ==
    /\ nops < MaxOps
    /\ wallet' = realize_pnl(wallet, pnl, commission)
    /\ last' = Call("realize_pnl", "", pnl, commission, TRUE, NoPrices)
    /\ rt' = NoRoundTrip
    /\ nops' = nops + 1
    /\ UNCHANGED <<positions, orders>>
    /\ UNCHANGED <<orderVars, engineVars, unitVars>>

\* Wallet.reset_daily, the daily reset (RiskManager.reset_daily_metrics)
ResetDaily ==
    /\ nops < MaxOps
    /\ wallet' = reset_daily(wallet)
    /\ last' = Call("reset_daily", "", 0, 0, TRUE, NoPrices)
    /\ rt' = NoRoundTrip
    /\ nops' = nops + 1
    /\ UNCHANGED <<positions, orders>>
    /\ UNCHANGED <<orderVars, engineVars, unitVars>>

CreateOrder(symbol, side, qty, price) ==
    /\ nops < MaxOps
    /\ LET r == create_order(positions, wallet, orders, symbol, side, qty, price) IN
         /\ positions' = r.positions
         /\ wallet' = r.wallet
         /\ orders' = r.orders
         /\ last' = Call("create_order", symbol, qty, price, r.ret, NoPrices)
    /\ rt' = NoRoundTrip
    /\ nops' = nops + 1
    /\ UNCHANGED <<orderVars, engineVars, unitVars>>

ClosePosition(symbol, close_price, commission) ==
    /\ nops < MaxOps
    /\ LET r == close_position(positions, wallet, symbol, close_price, commission) IN
         /\ positions' = r.positions
         /\ wallet' = r.wallet
         /\ last' = Call("close_position", symbol, close_price, commission, r.ret, NoPrices)
    /\ rt' = NoRoundTrip
    /\ nops' = nops + 1
    /\ UNCHANGED orders
    /\ UNCHANGED <<orderVars, engineVars, unitVars>>

LiquidatePosition(symbol) ==
    /\ nops < MaxOps
    /\ LET r == liquidate_position(positions, wallet, symbol) IN
         /\ positions' = r.positions
         /\ wallet' = r.wallet
         /\ last' = Call("liquidate_position", symbol, 0, 0, r.ret, NoPrices)
    /\ rt' = NoRoundTrip
    /\ nops' = nops + 1
    /\ UNCHANGED orders
    /\ UNCHANGED <<orderVars, engineVars, unitVars>>

\* every dict of prices over a subset of the symbols
PriceMaps ==
    UNION { { f \in [S -> UNION {TickerPrices(s) : s \in S}] :
                \A s \in S : f[s] \in TickerPrices(s) } : S \in SUBSET Symbols }

UpdatePositionsMarkPrices(prices) ==
    /\ nops < MaxOps
    /\ LET r == update_positions_mark_prices(positions, wallet, prices) IN
         /\ positions' = r.positions
         /\ wallet' = r.wallet
    /\ last' = Call("update_positions_mark_prices", "", 0, 0, TRUE, prices)
    /\ rt' = NoRoundTrip
    /\ nops' = nops + 1
    /\ UNCHANGED orders
    /\ UNCHANGED <<orderVars, engineVars, unitVars>>

NextLedger ==
    \/ \E amount \in Amounts : UseMargin(amount)
    \/ \E amount \in Amounts : FreeMargin(amount)
    \/ \E pnl \in PnlInputs, commission \in CommissionInputs : RealizePnl(pnl, commission)
    \/ \E symbol \in Symbols, side \in Sides, qty \in Quantities :
         CreateOrder(symbol, side, qty, BasePrice(symbol))
    \/ \E symbol \in UnlistedSymbols, side \in Sides, qty \in Quantities :
         \E base_price \in RandomBasePrices :
            CreateOrder(symbol, side, qty, base_price)
    \/ \E symbol \in Symbols, commission \in CommissionInputs :
         \E close_price \in TickerPrices(symbol) :
            ClosePosition(symbol, close_price, commission)
    \/ \E symbol \in Symbols : LiquidatePosition(symbol)
    \/ \E prices \in PriceMaps : UpdatePositionsMarkPrices(prices)
    \/ ResetDaily

NextOrder ==
    \E quantity \in 1..MaxQty, price \in 1..MaxQty : Fill(quantity, price)

---------------------------------------------------------------------------
\* TradeEngine: the life cycle.  The engine runs on one asyncio event loop: a
\* coroutine runs until its next await that suspends, so each action below
\* is the code between two suspension points.  The client (the GUI thread's
\* bot_main, the Telegram handlers, the demo runner, a test) makes one engine
\* call after another; the scan loop and the position monitor are tasks.
\* Event listeners are taken not to suspend.

Modes == {"demo", "real"}

NoTask == 0

\* a task of _main_loop or _position_monitor; failed says that its last
\* cycle ended in an exception the loop or the cycle caught
NewTask(kind) ==
    [ kind |-> kind, pc |-> "created", must_cancel |-> FALSE, awaited |-> NoTask,
      failed |-> FALSE, at |-> 0 ]

Idle == [ op |-> "none", pc |-> "idle", from |-> "stopped", awaited |-> NoTask ]

InCall(op, pc, from, awaited) ==
    [ op |-> op, pc |-> pc, from |-> from, awaited |-> awaited ]

\* no emergency_stop() has run; runs counts them
\* a _process_scan_cycle that has done nothing yet: whether it found the
\* daily return at the shutdown threshold, whether it asked for the top
\* gainers, the candidates its loop reached, those whose signal it checked,
\* the opening sells it submitted, the candidates whose opening raised,
\* whether the loop ended at the position ceiling or because the engine was
\* no longer running, the exception its outer except caught and the one that
\* left it
NewScan == [ drawdown |-> FALSE, fetched |-> FALSE, visited |-> << >>,
             examined |-> << >>, sells |-> << >>, failed |-> << >>,
             ceiling |-> FALSE, stopped |-> FALSE, caught |-> "none",
             propagated |-> "none", at |-> 0 ]

NoSweep == [ runs |-> 0, open |-> {}, attempted |-> {}, closed |-> {},
             reported |-> 0, consistent |-> TRUE ]

\* emit_event(event) suspends the coroutine that awaits it: a coroutine
\* listener is registered for the event and is awaited
Awaits(event) ==
    /\ event \in DOMAIN event_handlers
    /\ \E k \in DOMAIN event_handlers[event] : event_handlers[event][k].is_async

\* TradeEngine.__init__, whatever the settings
Constructed ==
    /\ state = "stopped"
    /\ running = FALSE
    /\ main_task = NoTask
    /\ position_monitor_task = NoTask
    /\ tasks = << >>
    /\ caller = Idle
    /\ entered = FALSE
    /\ start_called = FALSE
    /\ ncalls = 0
    /\ estep = "construct"
    /\ exchange = "none"
    /\ stop_emitted = FALSE
    /\ sweep = NoSweep
    /\ ncycles = 0
    /\ scan = NewScan
    /\ emitted = << >>

InitEngine ==
    /\ mode \in Modes
    /\ max_concurrent_positions \in MaxPositionsSettings
    /\ demo_balance = DemoBalance
    /\ Constructed

IdleEngine ==
    /\ mode = "demo"
    /\ max_concurrent_positions = MaxConcurrentPositions
    /\ demo_balance = DemoBalance
    /\ Constructed

\* the paper engine with a balance that several liquidations do not take to
\* the shutdown threshold
InitPaperEngine ==
    /\ mode = "demo"
    /\ max_concurrent_positions \in MaxPositionsSettings
    /\ demo_balance = LargeDemoBalance
    /\ Constructed

\* asyncio.Task.done()
Done(ts, t) == ts[t].pc = "done"

\* asyncio.Task.cancel(): a request, delivered as CancelledError at the
\* task's next resumption; no effect on a task that is done
cancel(ts, t) ==
    IF t = NoTask \/ Done(ts, t) THEN ts
    ELSE [ts EXCEPT ![t].must_cancel = TRUE]

\* initialize(), up to its first suspension: state = STARTING, the exchange
\* and the portfolio are constructed, then connect() is awaited
initialize_begin == "starting"

initialize_end_stopped(st, ok) == IF ok THEN "stopped" ELSE "error"

initialize_end_silent(st, ok) == st

\* initialize(), from the connection to its end: test_connection() true and
\* no exception leaves the state as it is; any exception sets ERROR
initialize_end(st, ok) == IF ok THEN st ELSE "error"

\* the outcomes the exchange allows: the paper exchange always connects
ConnectOutcomes == IF mode = "demo" THEN {TRUE} ELSE {TRUE, FALSE}

\* initialize() builds a new exchange client and a new Portfolio, whose
\* wallet holds the starting balance (demo_balance, or the account's wallet
\* balance) with the daily counters reset; no cycle has run on it
NewExchange ==
    /\ exchange' = "open"
    /\ wallet' = reset_daily([NewWallet EXCEPT !.balance = demo_balance,
                                               !.available_balance = demo_balance])
    /\ positions' = [s \in {} |-> 0]
    /\ orders' = << >>
    /\ ncycles' = 0
    /\ UNCHANGED <<last, nops, rt>>

\* await engine.initialize(), and __aenter__ which is the same call
CallInitialize(op) ==
    /\ caller.pc = "idle"
    /\ ncalls < MaxCalls
    /\ state' = initialize_begin
    /\ NewExchange
    /\ caller' = InCall(op, "init_await", state, NoTask)
    /\ ncalls' = ncalls + 1
    /\ estep' = "initialize_begin"
    /\ UNCHANGED <<mode, demo_balance, max_concurrent_positions, running, main_task,
                   position_monitor_task, tasks, entered, start_called,
                   stop_emitted, emitted, sweep, scan>>
    /\ UNCHANGED <<orderVars, unitVars>>

InitializeReturn(ok) ==
    /\ caller.pc = "init_await"
    /\ caller.op \in {"initialize", "aenter"}
    /\ state' = initialize_end(state, ok)
    /\ caller' = Idle
    /\ entered' = (entered \/ (ok /\ caller.op = "aenter"))
    /\ estep' = IF ok THEN "initialize_ok" ELSE "initialize_failed"
    /\ UNCHANGED <<mode, demo_balance, max_concurrent_positions, running, main_task,
                   position_monitor_task, tasks, start_called, ncalls,
                   exchange, stop_emitted, emitted, sweep, scan>>
    /\ UNCHANGED <<ledgerVars, orderVars, ncycles, unitVars>>

\* start() after its initialize(): running, RUNNING, the two tasks created,
\* the start event emitted
Launch ==
    /\ running' = TRUE
    /\ state' = "running"
    /\ tasks' = tasks \o << NewTask("main"), NewTask("monitor") >>
    /\ main_task' = Len(tasks) + 1
    /\ position_monitor_task' = Len(tasks) + 2
    /\ caller' = Idle
    /\ estep' = "start"

\* await engine.start()
CallStart ==
    /\ caller.pc = "idle"
    /\ ncalls < MaxCalls
    /\ ncalls' = ncalls + 1
    /\ start_called' = TRUE
    /\ IF state # "starting"
       THEN /\ state' = initialize_begin
            /\ NewExchange
            /\ caller' = InCall("start", "init_await", state, NoTask)
            /\ estep' = "initialize_begin"
            /\ UNCHANGED <<running, main_task, position_monitor_task, tasks>>
       ELSE /\ Launch
            /\ UNCHANGED <<ledgerVars, exchange, ncycles>>
    /\ UNCHANGED <<mode, demo_balance, max_concurrent_positions, entered, stop_emitted,
                   emitted, sweep, scan>>
    /\ UNCHANGED <<orderVars, unitVars>>

StartInitializeReturn(ok) ==
    /\ caller.pc = "init_await"
    /\ caller.op = "start"
    /\ IF ok
       THEN Launch
       ELSE /\ state' = initialize_end(state, ok)
            /\ caller' = Idle
            /\ estep' = "initialize_failed"
            /\ UNCHANGED <<running, main_task, position_monitor_task, tasks>>
    /\ UNCHANGED <<mode, demo_balance, max_concurrent_positions, entered, start_called,
                   ncalls, exchange, stop_emitted, emitted, sweep, scan>>
    /\ UNCHANGED <<ledgerVars, orderVars, ncycles, unitVars>>

\* shutdown() after its stop(): disconnect() on the exchange, if there is one
disconnect(ex) == IF ex = "none" THEN ex ELSE "closed"

\* stop() from `stage` (its beginning, or the return of one of its two
\* awaits) to its next suspension or to its end; ev are the events emitted
\* before it.  A task that is done, or
\* was cancelled before it ran, is awaited without suspending; the
\* CancelledError such an await raises is caught around each await.  At the
\* end the state is STOPPED and the stop event is emitted.
stop_continue(op, from, stage, ev) ==
    IF stage = "begin" /\ main_task # NoTask /\ ~Done(tasks', main_task)
    THEN /\ caller' = InCall(op, "stop_await_main", from, main_task)
         /\ state' = (IF stage = "begin" THEN "stopping" ELSE state)
         /\ estep' = "stop"
         /\ emitted' = ev
         /\ UNCHANGED <<stop_emitted, exchange>>
    ELSE IF /\ stage # "after_monitor"
            /\ position_monitor_task # NoTask
            /\ ~Done(tasks', position_monitor_task)
    THEN /\ caller' = InCall(op, "stop_await_monitor", from, position_monitor_task)
         /\ state' = (IF stage = "begin" THEN "stopping" ELSE state)
         /\ estep' = "stop"
         /\ emitted' = ev
         /\ UNCHANGED <<stop_emitted, exchange>>
    ELSE /\ caller' = Idle
         /\ state' = "stopped"
         /\ estep' = "stopped"
         /\ stop_emitted' = TRUE
         /\ emitted' = Append(ev, "stop")
         /\ exchange' = IF op = "shutdown" THEN disconnect(exchange) ELSE exchange

\* await engine.stop(); shutdown() is stop() unless STOPPED or ERROR, then
\* disconnect()
CallStop(op) ==
    /\ caller.pc = "idle"
    /\ ncalls < MaxCalls
    /\ ncalls' = ncalls + 1
    /\ IF op = "shutdown" /\ state \in {"stopped", "error"}
       THEN /\ caller' = Idle
            /\ estep' = "disconnect"
            /\ exchange' = disconnect(exchange)
            /\ UNCHANGED <<state, running, tasks, stop_emitted, emitted>>
       ELSE /\ running' = FALSE
            /\ tasks' = cancel(cancel(tasks, main_task), position_monitor_task)
            /\ stop_continue(op, state, "begin", emitted)
    /\ UNCHANGED <<mode, demo_balance, max_concurrent_positions, main_task,
                   position_monitor_task, entered, start_called, sweep, scan>>
    /\ UNCHANGED <<ledgerVars, orderVars, ncycles, unitVars>>

StopResume ==
    /\ caller.pc \in {"stop_await_main", "stop_await_monitor"}
    /\ Done(tasks, caller.awaited)
    /\ tasks' = tasks
    /\ stop_continue(caller.op, caller.from,
                     IF caller.pc = "stop_await_main" THEN "after_main"
                     ELSE "after_monitor",
                     emitted)
    /\ UNCHANGED <<mode, demo_balance, max_concurrent_positions, running, main_task,
                   position_monitor_task, entered, start_called, ncalls,
                   sweep, scan>>
    /\ UNCHANGED <<ledgerVars, orderVars, ncycles, unitVars>>

\* _main_loop / _position_monitor at the head of the while loop: one more
\* cycle, up to its first suspension, or the end of the task.  `suspends`
\* says whether the code reaches a request that suspends before it reaches
\* the interval sleep.  The monitor's first request is a price request.
loop_head(t, suspends) ==
    IF running /\ state = "running"
    THEN [t EXCEPT !.pc = IF ~suspends THEN "sleep"
                          ELSE IF t.kind = "monitor" THEN "price"
                          ELSE "cycle",
                   !.must_cancel = FALSE,
                   !.failed = FALSE]
    ELSE [t EXCEPT !.pc = "done", !.must_cancel = FALSE, !.failed = FALSE]

\* the event loop resumes task t
task_step(t, suspends) ==
    IF t.pc \in {"created", "sleep"}
    \* a task cancelled before it runs never runs; CancelledError out of the
    \* interval sleep breaks the loop
    THEN IF t.must_cancel THEN [t EXCEPT !.pc = "done", !.must_cancel = FALSE]
         ELSE loop_head(t, suspends)
    ELSE IF t.pc = "price"
    \* _monitor_positions, inside a price request: the bare except around it
    \* swallows a CancelledError, and the pass goes on to the take-profit
    \* closes and the sleep
    THEN [t EXCEPT !.pc = IF suspends THEN "cycle" ELSE "sleep",
                   !.must_cancel = FALSE]
    \* "cycle": inside any other request; CancelledError is not an Exception
    \* and reaches the loop, which breaks
    ELSE IF t.must_cancel THEN [t EXCEPT !.pc = "done", !.must_cancel = FALSE]
         ELSE [t EXCEPT !.pc = "sleep"]

\* the paper exchange never suspends inside a cycle (its coroutines hold no
\* await that yields); the live client suspends in its requests, and the
\* monitor makes none while no position is open
Suspensions == IF mode = "demo" THEN {FALSE} ELSE {TRUE, FALSE}

\* task i is about to run a cycle on the paper exchange: these cycles act on
\* the portfolio and are the actions ScanCycle, DrawdownStop and MonitorPass
TradingCycle(i) ==
    /\ mode = "demo"
    /\ tasks[i].pc \in {"created", "sleep"}
    /\ ~tasks[i].must_cancel
    /\ running
    /\ state = "running"

---------------------------------------------------------------------------
\* TradeEngine on the paper exchange: what a scan cycle, a monitor pass and
\* an emergency stop do to the portfolio.  A ledger below is a record
\* [positions, wallet, orders].

Ledger(ps, w, os) == [ positions |-> ps, wallet |-> w, orders |-> os ]

Abs(x) == IF x < 0 THEN 0 - x ELSE x

\* abs(wallet.daily_return_pct) >= threshold, daily_return_pct being
\* daily_pnl / daily_start_balance * 100, and 0 when the day started at 0;
\* |pnl| * 100 >= threshold * |start| with the division on the right
daily_return_reaches(w, threshold) ==
    /\ w.daily_start_balance # 0
    /\ Abs(w.daily_pnl) >= (threshold * Abs(w.daily_start_balance) + 99) \div 100

\* The ticker prices of one call of _update_market_data: the random walk
\* has taken every symbol down, nowhere, or up
Moves == {"down", "flat", "up"}

MarketPrice(symbol, move) ==
    LET P == TickerPrices(symbol) IN
    IF move = "down" THEN CHOOSE p \in P : \A q \in P : p <= q
    ELSE IF move = "up" THEN CHOOSE p \in P : \A q \in P : p >= q
    ELSE BasePrice(symbol)

\* Portfolio.positions is a dict: its positions in insertion order, which is
\* the order of their opening orders in Portfolio.orders
RECURSIVE InOrder(_, _, _)
InOrder(os, k, S) ==
    IF k > Len(os) THEN << >>
    ELSE IF os[k].symbol \in S
         THEN << os[k].symbol >> \o InOrder(os, k + 1, S \ {os[k].symbol})
         ELSE InOrder(os, k + 1, S)

open_positions_list(ps, os) == InOrder(os, 1, get_open_positions(ps))

\* the sum of one Decimal field over the positions of the symbols S
RECURSIVE SumField(_, _, _)
SumField(ps, S, field) ==
    IF S = {} THEN 0
    ELSE LET s == CHOOSE x \in S : TRUE
         IN ps[s][field] + SumField(ps, S \ {s}, field)

\* the positions that were closed or liquidated
get_ended_positions(ps) == DOMAIN ps \ get_open_positions(ps)

\* The ledger as a coroutine leaves it at an await: the margin of every OPEN
\* position is held in the wallet's margin balance, and every position that
\* was closed or liquidated has been realized, once, with its PnL
LedgerConsistent(ps, w) ==
    /\ \A s \in DOMAIN ps : ps[s].status \in {"OPEN", "CLOSED", "LIQUIDATED"}
    /\ w.margin_balance >= SumField(ps, get_open_positions(ps), "margin")
    /\ w.win_count + w.loss_count = Cardinality(get_ended_positions(ps))
    /\ w.total_realized_pnl = SumField(ps, get_ended_positions(ps), "realized_pnl")

\* What the exchange does in one cycle: the move of the paper exchange's
\* tickers, and the symbols whose opening order the live exchange accepts
Market(move, accepts) == [ move |-> move, accepts |-> accepts ]

\* _open_short_position: quantity = max(position_size_usd / price, 0.001),
\* a market SELL through the exchange port; InsufficientBalanceError and
\* every other exception are logged and dropped.  The paper exchange books
\* the position in the engine's Portfolio; the engine itself adds none, so
\* after an order the live exchange accepted the Portfolio is as it was.
\* ret says whether the order was accepted.
open_short_position(l, symbol, market) ==
    IF mode = "demo"
    THEN LET price == MarketPrice(symbol, market.move)
             quantity == Max(DecimalDiv(PositionSize, price), MinQuantity)
             r == create_order(l.positions, l.wallet, l.orders, symbol, "SELL",
                               quantity, price)
         IN [ positions |-> r.positions, wallet |-> r.wallet,
              orders |-> r.orders, ret |-> r.ret ]
    ELSE [ positions |-> l.positions, wallet |-> l.wallet,
           orders |-> l.orders, ret |-> symbol \in market.accepts ]

\* a position ceiling that is never reached
can_open_position_always(ps, max_positions) == TRUE

\* Portfolio.can_open_position
can_open_position(ps, max_positions) ==
    Cardinality(get_open_positions(ps)) < max_positions

\* a scan loop that does not look for a position of the candidate
has_position_never(ps, symbol) == FALSE

\* `if self.portfolio.get_position(symbol): continue`
has_position(ps, symbol) == get_position(ps, symbol)

\* an exception at a candidate that ends the loop
next_after_failure_abort(k) == Len(TopGainers) + 1

\* the candidate the loop goes to after the opening of candidate k raised:
\* _open_short_position drops the exception and returns, and an exception
\* that left it would be caught in the loop body, which continues
next_after_failure(k) == k + 1

\* the loop of _process_scan_cycle over the top gainers from the k-th on;
\* signals are the symbols whose _check_short_signal is true.  l is a
\* ledger with the log of the cycle.  The loop runs to its end, or to the
\* await of a coroutine listener of position_opened: log.at is then the
\* candidate that was opened.
RECURSIVE scan_symbols(_, _, _, _)

\* the loop after _open_short_position for candidate k has returned, o being
\* the ledger it left and whether the order was accepted: an accepted order
\* is followed by the position_opened event
scan_opened(l, examined, o, k, signals, market) ==
    LET symbol == TopGainers[k]
        sell == [ symbol |-> symbol,
                  held |-> IsOpen(l.positions, symbol),
                  accepted |-> o.ret,
                  opened |-> /\ IsOpen(o.positions, symbol)
                             /\ o.positions[symbol].side = "SHORT",
                  margin_up |-> o.wallet.margin_balance > l.wallet.margin_balance,
                  consistent |-> LedgerConsistent(o.positions, o.wallet) ]
        log == [examined.log EXCEPT
                   !.sells = Append(@, sell),
                   !.failed = IF o.ret THEN @ ELSE Append(@, symbol),
                   !.at = IF o.ret /\ Awaits("position_opened") THEN k ELSE 0]
        opened == [ positions |-> o.positions, wallet |-> o.wallet,
                    orders |-> o.orders, log |-> log ]
    IN IF o.ret /\ Awaits("position_opened") THEN opened
       ELSE scan_symbols(opened, IF o.ret THEN k + 1 ELSE next_after_failure(k),
                         signals, market)

scan_symbols(l, k, signals, market) ==
    IF k > Len(TopGainers) THEN l
    ELSE IF ~running THEN [l EXCEPT !.log.stopped = TRUE]
    ELSE LET symbol == TopGainers[k] IN
         IF ~can_open_position(l.positions, max_concurrent_positions)
         THEN [l EXCEPT !.log.ceiling = TRUE]
         ELSE LET visited == [l EXCEPT !.log.visited = Append(@, symbol)] IN
         IF has_position(l.positions, symbol)
         THEN scan_symbols(visited, k + 1, signals, market)
         ELSE LET examined == [visited EXCEPT !.log.examined = Append(@, symbol)] IN
         IF symbol \notin signals
         THEN scan_symbols(examined, k + 1, signals, market)
         ELSE scan_opened(l, examined, open_short_position(l, symbol, market),
                          k, signals, market)

\* the exceptions that are subclasses of Exception; CancelledError is not
Exceptions == {"DailyDrawdownExceededError", "InsufficientBalanceError",
               "BinanceAPIError", "RuntimeError"}

\* the outer `except Exception` of _process_scan_cycle: the exception is
\* logged and the cycle returns; any other leaves the cycle
scan_cycle_except(sc, exc) ==
    IF exc \in Exceptions THEN [sc EXCEPT !.caught = exc]
    ELSE [sc EXCEPT !.propagated = exc]

\* a cycle after get_top_gainers has been called
Fetched == [NewScan EXCEPT !.fetched = TRUE]

\* a cycle whose _check_daily_drawdown found the shutdown threshold reached
DrawdownFound == [NewScan EXCEPT !.drawdown = TRUE]

\* the take-profit loop of check_liquidations_and_tps over the triggered
\* symbols: close at the mark price
RECURSIVE close_triggered(_, _, _)
close_triggered(l, triggered, k) ==
    IF k > Len(triggered) THEN l
    ELSE LET symbol == triggered[k]
             r == close_position(l.positions, l.wallet, symbol,
                                 l.positions[symbol].mark_price, 0)
         IN close_triggered(Ledger(r.positions, r.wallet, l.orders), triggered, k + 1)

RECURSIVE liquidate_triggered(_, _, _)
liquidate_triggered(l, triggered, k) ==
    IF k > Len(triggered) THEN l
    ELSE LET r == liquidate_position(l.positions, l.wallet, triggered[k])
         IN liquidate_triggered(Ledger(r.positions, r.wallet, l.orders),
                                triggered, k + 1)

\* DemoExchange.check_liquidations_and_tps
check_liquidations_and_tps(l, move) ==
    LET open == get_open_positions(l.positions)
        prices == [s \in open |-> MarketPrice(s, move)]
        u == update_positions_mark_prices(l.positions, l.wallet, prices)
        l1 == Ledger(u.positions, u.wallet, l.orders)
        tp_triggered == InOrder(l.orders, 1,
                            {s \in open : check_take_profit(l1.positions[s])})
        l2 == close_triggered(l1, tp_triggered, 1)
        liq_triggered == InOrder(l.orders, 1,
                            {s \in get_open_positions(l2.positions) :
                                 check_liquidation(l2.positions[s])})
    IN liquidate_triggered(l2, liq_triggered, 1)

\* _close_position on the paper exchange: a reduce-only market BUY of the
\* position's size, then Portfolio.close_position at the current price.  An
\* exception of create_order is logged and the position is left as it is.
\* The result adds the symbols an order was sent for and those closed, and
\* whether the ledger was consistent at the awaits: after the order, where
\* the price is requested, and after the close, where the event is emitted.
engine_close_position(l, symbol, price) ==
    IF ~get_position(l.positions, symbol) THEN l
    ELSE LET r == create_order(l.positions, l.wallet, l.orders, symbol, "BUY",
                               l.positions[symbol].size, price)
             c == close_position(r.positions, r.wallet, symbol, price, 0)
         IN IF ~r.ret
            THEN [l EXCEPT !.attempted = @ \cup {symbol}]
            ELSE [ positions |-> c.positions, wallet |-> c.wallet,
                   orders |-> r.orders,
                   attempted |-> l.attempted \cup {symbol},
                   closed |-> IF c.ret THEN l.closed \cup {symbol} ELSE l.closed,
                   at |-> l.at,
                   consistent |-> /\ l.consistent
                                  /\ LedgerConsistent(r.positions, r.wallet)
                                  /\ LedgerConsistent(c.positions, c.wallet) ]

\* a sweep that a failed close ends
RECURSIVE emergency_sweep_abort(_, _, _, _)
emergency_sweep_abort(l, open_positions, k, move) ==
    IF k > Len(open_positions) THEN l
    ELSE LET l1 == engine_close_position(l, open_positions[k],
                                         MarketPrice(open_positions[k], move))
         IN IF open_positions[k] \notin l1.closed THEN l1
            ELSE emergency_sweep_abort(l1, open_positions, k + 1, move)

\* the sweep of emergency_stop over the positions that were open when it
\* began, from the k-th on; a failed close does not end it.  The sweep runs
\* to its end, or to the await of a coroutine listener of position_closed:
\* at is then the position that was closed.
RECURSIVE emergency_sweep(_, _, _, _)

\* the sweep after _close_position for the k-th position has returned with
\* the ledger l: a close that succeeded has emitted position_closed
sweep_closed(l, open_positions, k, move) ==
    IF open_positions[k] \in l.closed /\ Awaits("position_closed")
    THEN [l EXCEPT !.at = k]
    ELSE emergency_sweep(l, open_positions, k + 1, move)

emergency_sweep(l, open_positions, k, move) ==
    IF k > Len(open_positions) THEN [l EXCEPT !.at = 0]
    ELSE sweep_closed(engine_close_position(l, open_positions[k],
                                            MarketPrice(open_positions[k], move)),
                      open_positions, k, move)

\* the live exchange accepts every opening order of a cycle, or rejects
\* every one
AcceptSets == { {}, EngineSymbols }

\* task i is the scan loop on the live client and this step ends a cycle: it
\* resumes inside the cycle's request and is not cancelled, or it runs a
\* whole cycle without being suspended
LiveCycleEnds(i, suspends) ==
    /\ mode = "real"
    /\ tasks[i].kind = "main"
    /\ ~tasks[i].must_cancel
    /\ \/ tasks[i].pc = "cycle"
       \/ tasks[i].pc \in {"created", "sleep"} /\ running /\ state = "running"
                                               /\ ~suspends

\* task i is the scan loop on the live client, cancelled inside the request
\* for the top gainers
LiveCycleCancelled(i) ==
    /\ mode = "real"
    /\ tasks[i].kind = "main"
    /\ tasks[i].must_cancel
    /\ tasks[i].pc = "cycle"

\* the scan loop on the live client ends a cycle: the loop over the
\* candidates has run, and no position was added to the Portfolio
LiveScanCycle(i, suspends, signals, accepts) ==
    /\ tasks[i].pc \in {"created", "sleep", "cycle"}
    /\ LiveCycleEnds(i, suspends)
    /\ tasks' = [tasks EXCEPT ![i] = task_step(tasks[i], suspends)]
    /\ estep' = "task"
    /\ scan' = scan_symbols([ positions |-> positions, wallet |-> wallet,
                              orders |-> orders, log |-> Fetched ],
                            1, signals, Market("flat", accepts)).log
    /\ UNCHANGED <<mode, demo_balance, max_concurrent_positions, state, running,
                   main_task,
                   position_monitor_task, caller, entered, start_called,
                   ncalls, exchange, stop_emitted, emitted, sweep>>
    /\ UNCHANGED <<ledgerVars, orderVars, ncycles, unitVars>>

\* a loop that an exception out of its cycle ends
cycle_failed_ends_loop(t) == [t EXCEPT !.pc = "done", !.failed = TRUE]

\* a loop task after an Exception inside its cycle: _process_scan_cycle and
\* _monitor_positions log it and return, and the loop goes to its interval
\* sleep; one that left them would be logged by the loop's own except, which
\* sleeps as well
cycle_failed(t) == [t EXCEPT !.pc = "sleep", !.failed = TRUE]

\* a request of a cycle on the live client raises (BinanceAPIError): the
\* task resumes inside the request with the exception, or meets it in a
\* cycle that was not suspended before.  In a scan cycle the request is the
\* one for the top gainers: past it, every exception is caught per candidate
LiveCycleFails(i, suspends) ==
    /\ mode = "real"
    /\ ~tasks[i].must_cancel
    /\ \/ tasks[i].pc = "cycle"
       \/ tasks[i].pc \in {"created", "sleep"} /\ running /\ state = "running"
                                               /\ ~suspends
    /\ tasks' = [tasks EXCEPT ![i] = cycle_failed(tasks[i])]
    /\ estep' = "task"
    /\ scan' = IF tasks[i].kind = "main"
               THEN scan_cycle_except(NewScan, "BinanceAPIError")
               ELSE scan
    /\ UNCHANGED <<mode, demo_balance, max_concurrent_positions, state, running,
                   main_task,
                   position_monitor_task, caller, entered, start_called,
                   ncalls, exchange, stop_emitted, emitted, sweep>>
    /\ UNCHANGED <<ledgerVars, orderVars, ncycles, unitVars>>

\* every other step of a loop task outside stop(): the beginning of a cycle
\* on the live client, a monitor pass on it, a cancellation, the end of the
\* loop
TaskStep(i, suspends) ==
    /\ tasks[i].pc \in {"created", "sleep", "cycle", "price"}
    /\ ~TradingCycle(i)
    /\ ~LiveCycleEnds(i, suspends)
    /\ tasks' = [tasks EXCEPT ![i] = task_step(tasks[i], suspends)]
    /\ estep' = "task"
    /\ scan' = IF LiveCycleCancelled(i)
               THEN scan_cycle_except(Fetched, "CancelledError")
               ELSE scan
    /\ UNCHANGED <<mode, demo_balance, max_concurrent_positions, state, running,
                   main_task,
                   position_monitor_task, caller, entered, start_called,
                   ncalls, exchange, stop_emitted, emitted, sweep>>
    /\ UNCHANGED <<ledgerVars, orderVars, ncycles, unitVars>>

\* one _process_scan_cycle on the paper exchange below the shutdown
\* threshold, then the interval sleep; with a coroutine listener of
\* position_opened, the cycle up to the first opening and the await of the
\* listener
ScanCycle(i, signals, move) ==
    /\ ncycles < MaxCycles
    /\ tasks[i].kind = "main"
    /\ TradingCycle(i)
    /\ ~daily_return_reaches(wallet, ShutdownThreshold)
    /\ LET l == scan_symbols([ positions |-> positions, wallet |-> wallet,
                                orders |-> orders, log |-> Fetched ],
                              1, signals, Market(move, {})) IN
         /\ positions' = l.positions
         /\ wallet' = l.wallet
         /\ orders' = l.orders
         /\ scan' = l.log
         /\ tasks' = [tasks EXCEPT ![i].pc = IF l.log.at > 0 THEN "notify"
                                              ELSE "sleep",
                                   ![i].at = l.log.at]
    /\ estep' = "scan"
    /\ UNCHANGED <<mode, demo_balance, max_concurrent_positions, state, running,
                   main_task,
                   position_monitor_task, caller, entered, start_called,
                   ncalls, exchange, stop_emitted, emitted, sweep>>
    /\ UNCHANGED <<last, nops, rt>>
    /\ ncycles' = ncycles + 1
    /\ UNCHANGED <<orderVars, unitVars>>

\* one _monitor_positions on the paper exchange, then the interval sleep:
\* check_liquidations_and_tps() and return, before the branch that emits
\* position_liquidated.  That branch is the live client's, whose Portfolio
\* holds no position to liquidate.
MonitorPass(i, move) ==
    /\ ncycles < MaxCycles
    /\ tasks[i].kind = "monitor"
    /\ TradingCycle(i)
    /\ LET l == check_liquidations_and_tps(Ledger(positions, wallet, orders), move) IN
         /\ positions' = l.positions
         /\ wallet' = l.wallet
         /\ orders' = l.orders
    /\ tasks' = [tasks EXCEPT ![i].pc = "sleep"]
    /\ estep' = "monitor"
    /\ UNCHANGED <<mode, demo_balance, max_concurrent_positions, state, running,
                   main_task,
                   position_monitor_task, caller, entered, start_called,
                   ncalls, exchange, stop_emitted, emitted, sweep, scan>>
    /\ UNCHANGED <<last, nops, rt>>
    /\ ncycles' = ncycles + 1
    /\ UNCHANGED <<orderVars, unitVars>>

\* stop() run by loop task i, from `stage` to its next suspension or to its
\* end; ts are the tasks after the cancel() calls.  Task i awaiting itself
\* suspends once: the await is answered at its next step.  When stop()
\* returns, emergency_stop() returns, _check_daily_drawdown raises
\* DailyDrawdownExceededError, _process_scan_cycle logs it, and the loop
\* goes to its interval sleep.
task_stop_continue(i, ts, stage, ev) ==
    IF stage = "begin" /\ main_task # NoTask
                       /\ (main_task = i \/ ~Done(ts, main_task))
    THEN /\ tasks' = [ts EXCEPT ![i].pc = "stop_await_main",
                                ![i].awaited = main_task]
         /\ state' = (IF stage = "begin" THEN "stopping" ELSE state)
         /\ estep' = "stop"
         /\ emitted' = ev
         /\ scan' = DrawdownFound
         /\ UNCHANGED stop_emitted
    ELSE IF /\ stage # "after_monitor"
            /\ position_monitor_task # NoTask
            /\ ~Done(ts, position_monitor_task)
    THEN /\ tasks' = [ts EXCEPT ![i].pc = "stop_await_monitor",
                                ![i].awaited = position_monitor_task]
         /\ state' = (IF stage = "begin" THEN "stopping" ELSE state)
         /\ estep' = "stop"
         /\ emitted' = ev
         /\ scan' = DrawdownFound
         /\ UNCHANGED stop_emitted
    ELSE /\ tasks' = [ts EXCEPT ![i].pc = "sleep", ![i].awaited = NoTask]
         /\ state' = "stopped"
         /\ estep' = "drawdown_exceeded"
         /\ stop_emitted' = TRUE
         /\ emitted' = Append(ev, "stop")
         /\ scan' = scan_cycle_except(DrawdownFound, "DailyDrawdownExceededError")

\* a scan cycle that finds abs(daily_return_pct) at the shutdown threshold:
\* _check_daily_drawdown emits the drawdown events and awaits
\* emergency_stop(), which sets SAFE_SHUTDOWN, sweeps the open positions,
\* emits the emergency_stop event with len(open_positions) and, in its
\* finally, awaits stop()
DrawdownStop(i, move) ==
    /\ ncycles < MaxCycles
    /\ tasks[i].kind = "main"
    /\ TradingCycle(i)
    /\ daily_return_reaches(wallet, ShutdownThreshold)
    /\ LET open_positions == open_positions_list(positions, orders)
           l0 == [ positions |-> positions, wallet |-> wallet, orders |-> orders,
                   attempted |-> {}, closed |-> {}, consistent |-> TRUE,
                   at |-> 0 ]
           l == emergency_sweep(l0, open_positions, 1, move)
       IN /\ positions' = l.positions
          /\ wallet' = l.wallet
          /\ orders' = l.orders
          /\ sweep' = [ runs |-> sweep.runs + 1,
                        open |-> {open_positions[k] : k \in DOMAIN open_positions},
                        attempted |-> l.attempted,
                        closed |-> l.closed,
                        reported |-> Len(open_positions),
                        consistent |-> l.consistent ]
    /\ running' = FALSE
    /\ task_stop_continue(i, cancel(cancel(tasks, main_task), position_monitor_task),
                          "begin",
                          emitted \o << "drawdown_critical", "emergency_stop" >>)
    /\ UNCHANGED <<mode, demo_balance, max_concurrent_positions, main_task,
                   position_monitor_task, caller, entered, start_called,
                   ncalls, exchange>>
    /\ UNCHANGED <<last, nops, rt>>
    /\ ncycles' = ncycles + 1
    /\ UNCHANGED <<orderVars, unitVars>>

\* loop task i resumes inside stop(): the task it awaits is done, or the
\* await raises.  A CancelledError (its own cancel() among them) is caught
\* around the await and stop() goes on; the RuntimeError of a task awaiting
\* itself is not, and leaves stop() and emergency_stop() for the except of
\* _process_scan_cycle, the state still STOPPING.
TaskStopResume(i) ==
    /\ tasks[i].pc \in {"stop_await_main", "stop_await_monitor"}
    /\ \/ tasks[i].must_cancel
       \/ tasks[i].awaited = i
       \/ Done(tasks, tasks[i].awaited)
    /\ IF ~tasks[i].must_cancel /\ tasks[i].awaited = i
       THEN /\ tasks' = [tasks EXCEPT ![i].pc = "sleep", ![i].awaited = NoTask]
            /\ estep' = "stop_failed"
            /\ scan' = scan_cycle_except(DrawdownFound, "RuntimeError")
            /\ UNCHANGED <<state, stop_emitted, emitted>>
       ELSE task_stop_continue(i, [tasks EXCEPT ![i].must_cancel = FALSE],
                               IF tasks[i].pc = "stop_await_main" THEN "after_main"
                               ELSE "after_monitor",
                               emitted)
    /\ UNCHANGED <<mode, demo_balance, max_concurrent_positions, running, main_task,
                   position_monitor_task, caller, entered, start_called,
                   ncalls, exchange, sweep>>
    /\ UNCHANGED <<ledgerVars, orderVars, ncycles, unitVars>>

---------------------------------------------------------------------------
\* TradeEngine event listeners: add_event_handler and emit_event

\* TradingEvent kinds listened to
Events == {"start", "stop"}

\* a listener: a coroutine function (awaited) or a plain callable, whose call
\* returns or raises an Exception
Handlers == [is_async : BOOLEAN, raises : BOOLEAN]

\* event_handlers = {}: a kind without key has no listener
NoHandlers == [event \in Events |-> << >>]

\* no emit_event has run.  In an emission, k is the index the for loop of
\* emit_event is at, calls the indices of the listeners called so far,
\* suspended says that the emission is inside the await of listener k, and
\* raised that emit_event was left by an exception
NoEmission == [ active |-> FALSE, event |-> "none", k |-> 0, suspended |-> FALSE,
                calls |-> << >>, raised |-> FALSE ]

add_event_handler(hs, event, handler) == [hs EXCEPT ![event] = Append(@, handler)]

\* the call of listener k raising out of emit_event
handler_finished_propagates(em, raises) ==
    IF raises
    THEN [em EXCEPT !.active = FALSE, !.suspended = FALSE, !.raised = TRUE]
    ELSE [em EXCEPT !.k = em.k + 1, !.suspended = FALSE]

\* the call of listener k has returned, or raised an Exception which the
\* except clause inside the loop logs: the loop goes on
handler_finished(em, raises) ==
    [em EXCEPT !.k = em.k + 1, !.suspended = FALSE]

\* emit_event from the head of its for loop to the next await of a coroutine
\* listener, or to its end
RECURSIVE emit_continue(_, _)
emit_continue(hs, em) ==
    IF ~em.active THEN em
    ELSE IF em.k > Len(hs[em.event]) THEN [em EXCEPT !.active = FALSE]
    ELSE LET handler == hs[em.event][em.k]
             called == [em EXCEPT !.calls = Append(@, em.k)]
         IN IF handler.is_async
            THEN [called EXCEPT !.suspended = TRUE]
            ELSE emit_continue(hs, handler_finished(called, handler.raises))

InitEmit ==
    /\ event_handlers = NoHandlers
    /\ emission = NoEmission

\* engine.add_event_handler(event, handler), by the client or by whatever
\* runs while an emission waits for a coroutine listener
AddEventHandler(event, handler) ==
    /\ ~emission.active \/ emission.suspended
    /\ Len(event_handlers[event]) < MaxHandlers
    /\ event_handlers' = add_event_handler(event_handlers, event, handler)
    /\ UNCHANGED <<emission, risk, strategy>>
    /\ UNCHANGED <<ledgerVars, orderVars, engineVars>>

\* await engine.emit_event(event, data)
EmitEvent(event) ==
    /\ ~emission.active
    /\ emission' = emit_continue(event_handlers,
                                 [ active |-> TRUE, event |-> event, k |-> 1,
                                   suspended |-> FALSE, calls |-> << >>,
                                   raised |-> FALSE ])
    /\ UNCHANGED <<event_handlers, risk, strategy>>
    /\ UNCHANGED <<ledgerVars, orderVars, engineVars>>

\* the coroutine listener emit_event awaits returns or raises
EmitResume ==
    /\ emission.active
    /\ emission.suspended
    /\ emission' = emit_continue(
                       event_handlers,
                       handler_finished(emission,
                                        event_handlers[emission.event][emission.k].raises))
    /\ UNCHANGED <<event_handlers, risk, strategy>>
    /\ UNCHANGED <<ledgerVars, orderVars, engineVars>>

NextEmit ==
    \/ \E event \in Events, handler \in Handlers : AddEventHandler(event, handler)
    \/ \E event \in Events : EmitEvent(event)
    \/ EmitResume

---------------------------------------------------------------------------
\* TradeEngine on the paper exchange with the listeners of TelegramService:
\* emit_event awaits them, so a scan cycle is suspended after every opening
\* and an emergency stop after every close

\* TelegramService._register_event_handlers: one coroutine listener for each
\* of these events; each awaits send_message and raises nothing
TelegramEvents ==
    {"position_opened", "position_closed", "position_liquidated",
     "drawdown_warning", "drawdown_critical", "stop"}

TelegramHandlers ==
    [event \in TelegramEvents |-> << [is_async |-> TRUE, raises |-> FALSE] >>]

\* The stop listener is awaited after the last assignment of stop(), and
\* nothing of the engine depends on its return.

\* a quiet market: every ticker stays at its base price, no position comes
\* to its take-profit or liquidation price and the daily return stays inside
\* the warning threshold, so _check_daily_drawdown emits nothing
QuietMoves == {"flat"}

\* the scan loop resumes in the await of its position_opened listener: with
\* a CancelledError, which leaves emit_event, the cycle and the loop, or to
\* go on with the candidate after the one it opened
ScanResume(i, signals, move) ==
    /\ mode = "demo"
    /\ tasks[i].kind = "main"
    /\ tasks[i].pc = "notify"
    /\ IF tasks[i].must_cancel
       THEN /\ tasks' = [tasks EXCEPT ![i].pc = "done", ![i].must_cancel = FALSE,
                                      ![i].at = 0]
            /\ scan' = scan_cycle_except([scan EXCEPT !.at = 0], "CancelledError")
            /\ UNCHANGED <<positions, wallet, orders>>
       ELSE LET l == scan_symbols([ positions |-> positions, wallet |-> wallet,
                                    orders |-> orders,
                                    log |-> [scan EXCEPT !.at = 0] ],
                                  tasks[i].at + 1, signals, Market(move, {}))
            IN /\ positions' = l.positions
               /\ wallet' = l.wallet
               /\ orders' = l.orders
               /\ scan' = l.log
               /\ tasks' = [tasks EXCEPT ![i].pc = IF l.log.at > 0 THEN "notify"
                                                   ELSE "sleep",
                                         ![i].at = l.log.at]
    /\ estep' = "scan"
    /\ UNCHANGED <<mode, demo_balance, max_concurrent_positions, state, running,
                   main_task, position_monitor_task, caller, entered,
                   start_called, ncalls, exchange, stop_emitted, emitted, sweep>>
    /\ UNCHANGED <<last, nops, rt>>
    /\ UNCHANGED <<orderVars, ncycles, unitVars>>

\* emergency_stop() called by a client, after a stretch l of its sweep over
\* open_positions: suspended in the position_closed listener of position
\* l.at, or at the end of the loop, where it emits the emergency_stop event
\* and awaits stop() in its finally.  Without a portfolio the sweep raises
\* before the event, and stop() runs all the same.
emergency_stop_continue(l, open_positions, runs, from) ==
    /\ positions' = l.positions
    /\ wallet' = l.wallet
    /\ orders' = l.orders
    /\ sweep' = [ runs |-> runs,
                  open |-> {open_positions[k] : k \in DOMAIN open_positions},
                  attempted |-> l.attempted,
                  closed |-> l.closed,
                  reported |-> IF l.at > 0 THEN 0 ELSE Len(open_positions),
                  consistent |-> l.consistent ]
    /\ IF l.at > 0
       THEN /\ caller' = InCall("emergency_stop", "sweep", from, NoTask)
            /\ state' = "safe_shutdown"
            /\ estep' = "sweep"
            /\ UNCHANGED <<running, tasks, stop_emitted, emitted, exchange>>
       ELSE /\ running' = FALSE
            /\ tasks' = cancel(cancel(tasks, main_task), position_monitor_task)
            /\ stop_continue("emergency_stop", from, "begin",
                             IF exchange = "none" THEN emitted
                             ELSE Append(emitted, "emergency_stop"))

\* await engine.emergency_stop(): SAFE_SHUTDOWN, then the sweep over the
\* positions that are open
CallEmergencyStop(move) ==
    /\ caller.pc = "idle"
    /\ ncalls < MaxCalls
    /\ ncalls' = ncalls + 1
    /\ LET open_positions == open_positions_list(positions, orders)
           l0 == [ positions |-> positions, wallet |-> wallet, orders |-> orders,
                   attempted |-> {}, closed |-> {}, consistent |-> TRUE,
                   at |-> 0 ]
           l == emergency_sweep(l0, open_positions, 1, move)
       IN emergency_stop_continue(l, open_positions, sweep.runs + 1, state)
    /\ UNCHANGED <<mode, demo_balance, max_concurrent_positions, main_task,
                   position_monitor_task, entered, start_called, scan>>
    /\ UNCHANGED <<last, nops, rt>>
    /\ UNCHANGED <<orderVars, ncycles, unitVars>>

\* the position_closed listener returns to emergency_stop(), which goes on
\* with the position after the one it closed
EmergencyResume(move) ==
    /\ caller.pc = "sweep"
    /\ LET open_positions == InOrder(orders, 1, sweep.open)
           l0 == [ positions |-> positions, wallet |-> wallet, orders |-> orders,
                   attempted |-> sweep.attempted, closed |-> sweep.closed,
                   consistent |-> sweep.consistent, at |-> 0 ]
           l == emergency_sweep(l0, open_positions,
                                Cardinality(sweep.attempted) + 1, move)
       IN emergency_stop_continue(l, open_positions, sweep.runs, caller.from)
    /\ UNCHANGED <<mode, demo_balance, max_concurrent_positions, main_task,
                   position_monitor_task, entered, start_called, ncalls, scan>>
    /\ UNCHANGED <<last, nops, rt>>
    /\ UNCHANGED <<orderVars, ncycles, unitVars>>

---------------------------------------------------------------------------
\* RiskManager

\* RiskConfig.daily_warning_threshold, in percent
WarningThreshold == 10

\* RiskManager.max_consecutive_losses
max_consecutive_losses == 5

\* should_stop_trading keeps trading above $10 of available balance
BalanceFloor == 100000

\* RiskConfig.max_portfolio_risk, in percent
MaxPortfolioRisk == 5

\* calculate_position_size has not been called.  Sizes are kept as integer
\* numbers of 10^-DecimalPlaces; raised names the exception that left the
\* call, if any
NoSizing ==
    [ called |-> FALSE, price |-> 0, usd_amount |-> 0, max_risk_pct |-> None,
      raised |-> "none", size |-> 0, adjusted |-> FALSE ]

\* RiskManager(config): no portfolio attached.  closes is the realized PnL of
\* the positions handed to on_position_closed so far; last is the last call
\* and what it returned
NewRiskManager ==
    [ portfolio |-> FALSE, consecutive_losses |-> 0, alert_history |-> << >>,
      closes |-> << >>, sizing |-> NoSizing,
      last |-> [ op |-> "none", alert |-> "none", stop |-> FALSE, reason |-> "none" ] ]

RiskCall(op, alert, stop, reason) ==
    [ op |-> op, alert |-> alert, stop |-> stop, reason |-> reason ]

\* check_daily_drawdown testing the warning threshold first
check_daily_drawdown_warning_first(r, w) ==
    IF ~r.portfolio THEN "none"
    ELSE IF daily_return_reaches(w, WarningThreshold) THEN "warning"
    ELSE IF daily_return_reaches(w, ShutdownThreshold) THEN "critical"
    ELSE "none"

\* RiskManager.check_daily_drawdown: the alert returned, None as "none"
check_daily_drawdown(r, w) ==
    IF ~r.portfolio THEN "none"
    ELSE IF daily_return_reaches(w, ShutdownThreshold) THEN "critical"
    ELSE IF daily_return_reaches(w, WarningThreshold) THEN "warning"
    ELSE "none"

\* on_position_closed counting a zero PnL as a loss
on_position_closed_zero_counts(r, realized_pnl) ==
    [r EXCEPT !.consecutive_losses = IF realized_pnl <= 0 THEN @ + 1 ELSE 0]

\* RiskManager.on_position_closed
on_position_closed(r, realized_pnl) ==
    [r EXCEPT !.consecutive_losses = IF realized_pnl < 0 THEN @ + 1 ELSE 0]

\* RiskManager.should_stop_trading: (stop, reason)
should_stop_trading(r, w) ==
    IF ~r.portfolio THEN [ stop |-> FALSE, reason |-> "none" ]
    ELSE IF daily_return_reaches(w, ShutdownThreshold)
    THEN [ stop |-> TRUE, reason |-> "drawdown" ]
    ELSE IF r.consecutive_losses >= max_consecutive_losses
    THEN [ stop |-> TRUE, reason |-> "consecutive_losses" ]
    ELSE IF w.available_balance < BalanceFloor
    THEN [ stop |-> TRUE, reason |-> "balance" ]
    ELSE [ stop |-> FALSE, reason |-> "none" ]

\* The day's results the risk manager is consulted at: none, a loss of 10%
\* or 20% of the day's starting balance to the last unit, a larger loss, and
\* a gain of 20%
DailyPnls == { 0, 1 - DemoBalance \div 10, 0 - DemoBalance \div 10,
               1 - DemoBalance \div 5, 0 - DemoBalance \div 5,
               0 - DemoBalance \div 4, DemoBalance \div 5 }

\* a wallet that began the day with DemoBalance, has realized daily_pnl and
\* keeps `reserved` in margin
RiskWallet(daily_pnl, reserved) ==
    [NewWallet EXCEPT !.balance = DemoBalance + daily_pnl,
                      !.available_balance = DemoBalance + daily_pnl - reserved,
                      !.margin_balance = reserved,
                      !.daily_start_balance = DemoBalance,
                      !.daily_pnl = daily_pnl,
                      !.total_realized_pnl = daily_pnl]

\* the wallets of the portfolio attached: Wallet() as constructed (all zero),
\* and wallets whose available balance is at the floor, just under it, or
\* whole
RiskWallets ==
    {NewWallet} \cup
    UNION { { RiskWallet(daily_pnl, 0),
              RiskWallet(daily_pnl, DemoBalance + daily_pnl - BalanceFloor),
              RiskWallet(daily_pnl, DemoBalance + daily_pnl - (BalanceFloor - 1)) } :
            daily_pnl \in DailyPnls }

\* the realized PnL of the positions closed: a loss, nothing, a gain
ClosedPnls == {-1998, 0, 1998}

InitRisk ==
    /\ risk = NewRiskManager
    /\ wallet \in RiskWallets

\* risk_manager.set_portfolio(portfolio)
SetPortfolio ==
    /\ ~risk.portfolio
    /\ risk' = [risk EXCEPT !.portfolio = TRUE,
                            !.last = RiskCall("set_portfolio", "none", FALSE, "none")]
    /\ UNCHANGED <<event_handlers, emission, strategy>>
    /\ UNCHANGED <<ledgerVars, orderVars, engineVars>>

\* risk_manager.on_position_closed(position)
OnPositionClosed(realized_pnl) ==
    /\ Len(risk.closes) < MaxCloses
    /\ risk' = [on_position_closed(risk, realized_pnl) EXCEPT
                  !.closes = Append(@, realized_pnl),
                  !.last = RiskCall("on_position_closed", "none", FALSE, "none")]
    /\ UNCHANGED <<event_handlers, emission, strategy>>
    /\ UNCHANGED <<ledgerVars, orderVars, engineVars>>

\* risk_manager.check_daily_drawdown(): the alert returned is appended to
\* alert_history
CheckDailyDrawdown ==
    /\ Len(risk.alert_history) < MaxAlerts
    /\ LET alert == check_daily_drawdown(risk, wallet) IN
       risk' = [risk EXCEPT
                  !.alert_history = IF alert = "none" THEN @ ELSE Append(@, alert),
                  !.last = RiskCall("check_daily_drawdown", alert, FALSE, "none")]
    /\ UNCHANGED <<event_handlers, emission, strategy>>
    /\ UNCHANGED <<ledgerVars, orderVars, engineVars>>

\* risk_manager.should_stop_trading()
ShouldStopTrading ==
    /\ LET r == should_stop_trading(risk, wallet) IN
       risk' = [risk EXCEPT
                  !.last = RiskCall("should_stop_trading", "none", r.stop, r.reason)]
    /\ UNCHANGED <<event_handlers, emission, strategy>>
    /\ UNCHANGED <<ledgerVars, orderVars, engineVars>>

NextRisk ==
    \/ SetPortfolio
    \/ \E realized_pnl \in ClosedPnls : OnPositionClosed(realized_pnl)
    \/ CheckDailyDrawdown
    \/ ShouldStopTrading

---------------------------------------------------------------------------
\* RiskManager.calculate_position_size

\* calculate_position_size(symbol, price, usd_amount, max_risk_pct) on
\* wallet w: max_risk_pct None or 0 is replaced by config.max_portfolio_risk;
\* requested_size is the Decimal quotient usd_amount / price and
\* requested_notional is requested_size * price; the adjusted size is the
\* Decimal quotient max_risk_amount / price
calculate_position_size(r, w, price, usd_amount, max_risk_pct) ==
    LET call == [NoSizing EXCEPT !.called = TRUE, !.price = price,
                                 !.usd_amount = usd_amount,
                                 !.max_risk_pct = max_risk_pct]
    IN IF ~r.portfolio THEN [call EXCEPT !.raised = "RiskManagementError"]
       ELSE LET available_balance == w.available_balance
                pct == IF max_risk_pct = None \/ max_risk_pct = 0
                       THEN MaxPortfolioRisk ELSE max_risk_pct
                requested_size == DecimalDiv(usd_amount * Scale, price)
                requested_notional == requested_size * price
            IN IF requested_notional > available_balance * Scale
               THEN [call EXCEPT !.raised = "InsufficientBalanceError"]
               ELSE IF requested_notional * 100 > available_balance * pct * Scale
               THEN [call EXCEPT
                       !.size = DecimalDiv(available_balance * pct * Scale, 100 * price),
                       !.adjusted = TRUE]
               ELSE [call EXCEPT !.size = requested_size]

\* prices, amounts and available balances of the calls, in whole units
SizingPrices == {3, 8}

SizingAmounts == {1, 50, 51, 2000}

SizingRiskPcts == {None, 0, 1, 20}

SizingWallets ==
    { [NewWallet EXCEPT !.balance = a, !.available_balance = a] : a \in {0, 40, 1000} }

InitSizing ==
    /\ risk = NewRiskManager
    /\ wallet \in SizingWallets

\* risk_manager.calculate_position_size(symbol, price, usd_amount, max_risk_pct)
CalculatePositionSize(price, usd_amount, max_risk_pct) ==
    /\ risk' = [risk EXCEPT
                  !.sizing = calculate_position_size(risk, wallet, price, usd_amount,
                                                     max_risk_pct),
                  !.last = RiskCall("calculate_position_size", "none", FALSE, "none")]
    /\ UNCHANGED <<event_handlers, emission, strategy>>
    /\ UNCHANGED <<ledgerVars, orderVars, engineVars>>

NextSizing ==
    \/ SetPortfolio
    \/ \E price \in SizingPrices, usd_amount \in SizingAmounts,
          max_risk_pct \in SizingRiskPcts :
         CalculatePositionSize(price, usd_amount, max_risk_pct)

---------------------------------------------------------------------------
\* StrategyEngine.should_open_short

\* SignalLogic
SignalLogics == {"all_true", "majority_true", "any_true"}

\* keys generate_short_signals may set, the first MaxSignals of them
SignalOrder == << "rsi_overbought", "ema_bearish", "custom", "stoch_overbought",
                  "shooting_star" >>

SignalNames == {SignalOrder[k] : k \in 1..MaxSignals}

\* the value under a key: the bool True, the bool False, or a value that is
\* not a bool (what eval of a custom expression, or a numpy comparison, gives)
SignalValues == {"True", "False", "other"}

\* what generate_short_signals returns: the signals it could compute, or
\* its error dict
GeneratedSignals ==
    UNION { [S -> SignalValues] : S \in SUBSET SignalNames }

\* StrategyEngine(config, signal_logic); nothing decided yet
NewStrategy(enabled, signal_logic) ==
    [ enabled |-> enabled, signal_logic |-> signal_logic, called |-> FALSE,
      error |-> FALSE, signals |-> [s \in {} |-> "other"], decision |-> FALSE ]

\* true_signals > total_signals, a tie counting as a majority
majority_true_with_ties(true_signals, total_signals) ==
    2 * true_signals >= total_signals

\* true_signals > total_signals / 2
majority_true(true_signals, total_signals) ==
    2 * true_signals > total_signals

\* should_open_short(klines), generate_short_signals having returned
\* `signals`, or its error dict when `error`
should_open_short(enabled, signal_logic, error, signals) ==
    IF ~enabled THEN FALSE
    ELSE IF error THEN FALSE
    ELSE LET true_signals == Cardinality({s \in DOMAIN signals : signals[s] = "True"})
             total_signals == Cardinality({s \in DOMAIN signals :
                                             signals[s] \in {"True", "False"}})
         IN IF total_signals = 0 THEN FALSE
            ELSE IF signal_logic = "all_true"
            THEN \A s \in DOMAIN signals :
                    signals[s] \in {"True", "False"} => signals[s] = "True"
            ELSE IF signal_logic = "majority_true"
            THEN majority_true(true_signals, total_signals)
            ELSE true_signals > 0

InitStrategy ==
    \E enabled \in BOOLEAN, signal_logic \in SignalLogics :
        strategy = NewStrategy(enabled, signal_logic)

\* strategy.should_open_short(klines)
ShouldOpenShort(error, signals) ==
    /\ strategy' = [strategy EXCEPT
                      !.called = TRUE,
                      !.error = error,
                      !.signals = signals,
                      !.decision = should_open_short(strategy.enabled,
                                                     strategy.signal_logic,
                                                     error, signals)]
    /\ UNCHANGED <<event_handlers, emission, risk>>
    /\ UNCHANGED <<ledgerVars, orderVars, engineVars>>

NextStrategy ==
    \/ \E signals \in GeneratedSignals : ShouldOpenShort(FALSE, signals)
    \/ ShouldOpenShort(TRUE, [s \in {} |-> "other"])

NextEngine ==
    \/ \E op \in {"initialize", "aenter"} : CallInitialize(op)
    \/ \E ok \in ConnectOutcomes : InitializeReturn(ok)
    \/ CallStart
    \/ \E ok \in ConnectOutcomes : StartInitializeReturn(ok)
    \/ \E op \in {"stop", "shutdown"} : CallStop(op)
    \/ StopResume
    \/ \E i \in DOMAIN tasks, suspends \in Suspensions : TaskStep(i, suspends)
    \/ \E i \in DOMAIN tasks, suspends \in Suspensions :
         \E signals \in SignalSets, accepts \in AcceptSets :
            LiveScanCycle(i, suspends, signals, accepts)
    \/ \E i \in DOMAIN tasks, suspends \in Suspensions : LiveCycleFails(i, suspends)
    \/ \E i \in DOMAIN tasks, signals \in SignalSets, move \in Moves :
         ScanCycle(i, signals, move)
    \/ \E i \in DOMAIN tasks, move \in Moves : MonitorPass(i, move)
    \/ \E i \in DOMAIN tasks, move \in Moves : DrawdownStop(i, move)
    \/ \E i \in DOMAIN tasks : TaskStopResume(i)

\* no listener registered, a RiskManager nobody calls
IdleUnits ==
    InitEmit /\ risk = NewRiskManager /\ strategy = NewStrategy(TRUE, "majority_true")

Init == InitLedger /\ InitOrder(1) /\ IdleEngine /\ IdleUnits

Next == NextLedger

\* the ledger under every sequence of calls
Spec == Init /\ [][Next]_vars

\* one Order, of any requested quantity, under every sequence of fills
InitForOrder ==
    InitLedger /\ (\E q \in 1..MaxQty : InitOrder(q)) /\ IdleEngine /\ IdleUnits

SpecOrder == InitForOrder /\ [][NextOrder]_vars

\* the engine under every sequence of client calls and task schedules
InitForEngine == InitLedger /\ InitOrder(1) /\ InitEngine /\ IdleUnits

SpecEngine == InitForEngine /\ [][NextEngine]_vars

\* the paper engine: the client starts and stops it, the loops trade on the
\* DemoExchange
NextPaper ==
    \/ CallStart
    \/ \E ok \in ConnectOutcomes : StartInitializeReturn(ok)
    \/ \E op \in {"stop", "shutdown"} : CallStop(op)
    \/ StopResume
    \/ \E i \in DOMAIN tasks, suspends \in Suspensions : TaskStep(i, suspends)
    \/ \E i \in DOMAIN tasks, signals \in SignalSets, move \in Moves :
         ScanCycle(i, signals, move)
    \/ \E i \in DOMAIN tasks, move \in Moves : MonitorPass(i, move)
    \/ \E i \in DOMAIN tasks, move \in Moves : DrawdownStop(i, move)
    \/ \E i \in DOMAIN tasks : TaskStopResume(i)

InitForPaperEngine == InitLedger /\ InitOrder(1) /\ InitPaperEngine /\ IdleUnits

SpecPaperEngine == InitForPaperEngine /\ [][NextPaper]_vars

\* the paper engine with the listeners of TelegramService, on a quiet
\* market: the client starts and stops it, with stop() or emergency_stop()
InitNotifiedEngine ==
    /\ mode = "demo"
    /\ max_concurrent_positions = LowPositionsSetting
    /\ demo_balance = LargeDemoBalance
    /\ Constructed
    /\ event_handlers = TelegramHandlers
    /\ emission = NoEmission
    /\ risk = NewRiskManager
    /\ strategy = NewStrategy(TRUE, "majority_true")

NextNotified ==
    \/ CallStart
    \/ \E ok \in ConnectOutcomes : StartInitializeReturn(ok)
    \/ \E op \in {"stop", "shutdown"} : CallStop(op)
    \/ StopResume
    \/ \E move \in QuietMoves : CallEmergencyStop(move)
    \/ \E move \in QuietMoves : EmergencyResume(move)
    \/ \E i \in DOMAIN tasks, suspends \in Suspensions : TaskStep(i, suspends)
    \/ \E i \in DOMAIN tasks, signals \in SignalSets, move \in QuietMoves :
         ScanCycle(i, signals, move)
    \/ \E i \in DOMAIN tasks, signals \in SignalSets, move \in QuietMoves :
         ScanResume(i, signals, move)
    \/ \E i \in DOMAIN tasks, move \in QuietMoves : MonitorPass(i, move)

InitForNotified == InitLedger /\ InitOrder(1) /\ InitNotifiedEngine

SpecNotified == InitForNotified /\ [][NextNotified]_vars

\* the event loop runs every task that is ready: a sleep ends, a cancelled
\* task is resumed with its CancelledError, a task waiting in stop() resumes
\* once the task it awaits is done.  Nothing is assumed of the live exchange
\* answering the requests of a scan cycle.
FairTasks ==
    \A i \in 1..(2 * MaxCalls) :
        /\ WF_vars(\E suspends \in {TRUE, FALSE} :
                      i \in DOMAIN tasks /\ TaskStep(i, suspends))
        /\ WF_vars(i \in DOMAIN tasks /\ TaskStopResume(i))

FairSpecEngine == SpecEngine /\ FairTasks

\* the listeners of one engine under every sequence of registrations and
\* emissions
InitForEmit ==
    /\ wallet = NewWallet
    /\ positions = [s \in {} |-> 0]
    /\ orders = << >>
    /\ last = Call("init", "", 0, 0, TRUE, NoPrices)
    /\ nops = 0
    /\ rt = NoRoundTrip
    /\ InitOrder(1)
    /\ IdleEngine
    /\ InitEmit
    /\ risk = NewRiskManager
    /\ strategy = NewStrategy(TRUE, "majority_true")

SpecEmit == InitForEmit /\ [][NextEmit]_vars

\* one RiskManager, over the wallets of its portfolio, under every sequence
\* of calls
InitForRisk ==
    /\ positions = [s \in {} |-> 0]
    /\ orders = << >>
    /\ last = Call("init", "", 0, 0, TRUE, NoPrices)
    /\ nops = 0
    /\ rt = NoRoundTrip
    /\ InitOrder(1)
    /\ IdleEngine
    /\ InitEmit
    /\ InitRisk
    /\ strategy = NewStrategy(TRUE, "majority_true")

SpecRisk == InitForRisk /\ [][NextRisk]_vars

\* calculate_position_size over wallets, prices, amounts and risk percentages
InitForSizing ==
    /\ positions = [s \in {} |-> 0]
    /\ orders = << >>
    /\ last = Call("init", "", 0, 0, TRUE, NoPrices)
    /\ nops = 0
    /\ rt = NoRoundTrip
    /\ InitOrder(1)
    /\ IdleEngine
    /\ InitEmit
    /\ InitSizing
    /\ strategy = NewStrategy(TRUE, "majority_true")

SpecSizing == InitForSizing /\ [][NextSizing]_vars

\* should_open_short over every configuration and every generated signal map
InitForStrategy ==
    /\ InitLedger
    /\ InitOrder(1)
    /\ IdleEngine
    /\ InitEmit
    /\ risk = NewRiskManager
    /\ InitStrategy

SpecStrategy == InitForStrategy /\ [][NextStrategy]_vars

---------------------------------------------------------------------------
\* Claims about the ledger, checked under Spec

\* a step of the ledger that is a call of operation op
Called(op) == nops' # nops /\ last'.op = op

\* C1: available balance + margin-in-use <= balance in every reachable state
\* of the Wallet.
C1_MarginWithinBalance ==
    wallet.available_balance + wallet.margin_balance <= wallet.balance

\* C2: use_margin(amount) is atomic: with amount > available balance it
\* returns failure and leaves the wallet as it was; otherwise it returns
\* success, moves exactly amount from available balance to margin-in-use and
\* leaves balance alone.
C2_UseMarginAtomic ==
    [][ Called("use_margin") =>
          IF last'.a > wallet.available_balance
          THEN /\ ~last'.ret
               /\ wallet' = wallet
          ELSE /\ last'.ret
               /\ wallet'.available_balance = wallet.available_balance - last'.a
               /\ wallet'.margin_balance = wallet.margin_balance + last'.a
               /\ wallet'.balance = wallet.balance ]_vars

C2_Witness ==
    /\ last.op = "use_margin"
    /\ ~last.ret
    /\ last.a > wallet.available_balance
    /\ wallet.margin_balance > 0

C4_CloseNoOp ==
    [][ (Called("close_position") /\ ~IsOpen(positions, last'.symbol)) =>
          /\ ~last'.ret
          /\ wallet' = wallet
          /\ positions' = positions ]_vars

\* a second close_position on a position that is already CLOSED has failed
C4_Witness ==
    /\ last.op = "close_position"
    /\ ~last.ret
    /\ get_position(positions, last.symbol)
    /\ positions[last.symbol].status = "CLOSED"

\* C5: liquidate_position on an OPEN position makes it LIQUIDATED with
\* realized PnL = -margin and unrealized PnL = 0 and takes exactly the margin
\* off the balance; without an OPEN position it fails and changes nothing.
C5_Liquidate ==
    [][ Called("liquidate_position") =>
          LET s == last'.symbol IN
          IF IsOpen(positions, s)
          THEN /\ last'.ret
               /\ positions'[s].status = "LIQUIDATED"
               /\ positions'[s].realized_pnl = 0 - positions[s].margin
               /\ positions'[s].unrealized_pnl = 0
               /\ wallet'.balance = wallet.balance - positions[s].margin
          ELSE /\ ~last'.ret
               /\ wallet' = wallet
               /\ positions' = positions ]_vars

\* a position liquidated after its mark price had moved
C5_Witness ==
    /\ last.op = "liquidate_position"
    /\ last.ret
    /\ positions[last.symbol].status = "LIQUIDATED"
    /\ positions[last.symbol].mark_price # BasePrice(last.symbol)
    /\ positions[last.symbol].margin > 0

\* C6: realize_pnl(pnl, commission) adds net = pnl - commission to balance,
\* available balance, cumulative realized PnL and daily PnL, and increments
\* win_count when net > 0 and loss_count otherwise, never both.
C6_RealizePnl ==
    [][ Called("realize_pnl") =>
          LET net == last'.a - last'.b IN
          /\ wallet'.balance = wallet.balance + net
          /\ wallet'.available_balance = wallet.available_balance + net
          /\ wallet'.total_realized_pnl = wallet.total_realized_pnl + net
          /\ wallet'.daily_pnl = wallet.daily_pnl + net
          /\ wallet'.win_count = wallet.win_count + (IF net > 0 THEN 1 ELSE 0)
          /\ wallet'.loss_count = wallet.loss_count + (IF net > 0 THEN 0 ELSE 1) ]_vars

\* a net PnL of exactly zero has been counted as a loss
C6_Witness ==
    /\ last.op = "realize_pnl"
    /\ last.a - last.b = 0
    /\ last.b > 0
    /\ wallet.loss_count = 1
    /\ wallet.win_count = 0

\* C8: a position that is no longer OPEN keeps its status, its realized PnL
\* and its mark price through every later operation.
C8_TerminalStatus ==
    [][ \A s \in DOMAIN positions :
          positions[s].status # "OPEN" =>
            /\ s \in DOMAIN positions'
            /\ positions'[s].status = positions[s].status
            /\ positions'[s].realized_pnl = positions[s].realized_pnl
            /\ positions'[s].mark_price = positions[s].mark_price ]_vars

\* a mark-price update that names a CLOSED position has run
C8_Witness ==
    /\ last.op = "update_positions_mark_prices"
    /\ \E s \in DOMAIN last.prices :
          /\ get_position(positions, s)
          /\ positions[s].status = "CLOSED"
          /\ positions[s].mark_price # last.prices[s]

---------------------------------------------------------------------------
\* Claims about Order, checked under SpecOrder

\* C7: through every sequence of fills with positive quantities the filled
\* quantity never decreases and never exceeds the requested quantity, and the
\* average price is the notional-weighted mean of the fills so far.
C7_FillInvariant ==
    [][ /\ order'.filled_quantity >= order.filled_quantity
        /\ order'.filled_quantity <= order'.quantity
        /\ order'.avg_price * fills'.quantity = fills'.notional * Scale ]_vars


---------------------------------------------------------------------------
\* Claims about the engine

\* the client's call of initialize() (or __aenter__) begins / returns
InitializeBegins ==
    /\ caller.pc = "idle"
    /\ caller'.pc = "init_await"
    /\ caller'.op \in {"initialize", "aenter"}

InitializeSucceeds ==
    /\ caller.pc = "init_await"
    /\ caller.op \in {"initialize", "aenter"}
    /\ estep' = "initialize_ok"

C10_StoppedBeforeStart ==
    (entered /\ ~start_called /\ caller = Idle) => state = "stopped"


\* a step in which initialize() raises, called directly or by start()
InitializeFails ==
    /\ caller.pc = "init_await"
    /\ estep' = "initialize_failed"

\* C11: when initialize() fails the state becomes error, the call in progress
\* (initialize(), __aenter__ or the start() that made it) ends there with the
\* exception, and no task is created: running, the task handles and the set
\* of tasks stay as they were.
C11_InitializeFailure ==
    [][ /\ InitializeFails =>
               /\ state' = "error"
               /\ caller' = Idle
               /\ tasks' = tasks
               /\ running' = running
               /\ main_task' = main_task
               /\ position_monitor_task' = position_monitor_task
        /\ (caller.pc = "init_await" /\ caller' = Idle /\ state' # "error") =>
               estep' \in {"initialize_ok", "start"}
        /\ (caller.pc = "init_await" /\ Len(tasks') > Len(tasks)) =>
               estep' = "start" ]_vars

\* start() on a fresh engine whose connection test failed
C11_Witness ==
    /\ estep = "initialize_failed"
    /\ state = "error"
    /\ start_called
    /\ tasks = << >>
    /\ ~running


\* the task is None or has terminated
Terminated(t) == t = NoTask \/ Done(tasks, t)

\* C12: whenever stop() has declared the engine stopped (state stopped, stop
\* event emitted), the scan-loop task and the position-monitor task have
\* terminated, whoever called stop().
C12_StoppedAfterLoopsEnd ==
    (state = "stopped" /\ stop_emitted) =>
        (Terminated(main_task) /\ Terminated(position_monitor_task))


\* loop task i is inside the stop() of an emergency_stop()
InStop(ts, i) == ts[i].pc \in {"stop_await_main", "stop_await_monitor"}

\* a step in which the emergency_stop() run by some loop task returns
EmergencyStopReturns ==
    \E i \in DOMAIN tasks :
        \/ InStop(tasks, i) /\ ~InStop(tasks', i)
        \/ sweep' # sweep /\ \A j \in DOMAIN tasks : InStop(tasks', j) => InStop(tasks, j)

C17_MarkPrices ==
    [][ Called("update_positions_mark_prices") =>
          LET prices == last'.prices IN
          /\ DOMAIN positions' = DOMAIN positions
          /\ \A s \in DOMAIN positions :
                LET p == positions[s]
                    q == positions'[s]
                IN IF s \in DOMAIN prices /\ p.status = "OPEN"
                   THEN /\ q.mark_price = prices[s]
                        /\ q.unrealized_pnl =
                              (IF p.side = "SHORT"
                               THEN (p.entry_price - prices[s]) * p.size
                               ELSE (prices[s] - p.entry_price) * p.size)
                        /\ p.side = "SHORT" =>
                              (q.unrealized_pnl > 0 <=> prices[s] < p.entry_price)
                        /\ q = [p EXCEPT !.mark_price = q.mark_price,
                                         !.unrealized_pnl = q.unrealized_pnl]
                   ELSE q = p
          /\ wallet'.unrealized_pnl =
                SumUnrealized(positions',
                              {s \in DOMAIN positions' : positions'[s].status = "OPEN"})
       ]_vars

\* a mark-price update has just given an OPEN short a profit while another
\* position, absent from the prices or not OPEN, is in the portfolio
C17_Witness ==
    /\ last.op = "update_positions_mark_prices"
    /\ \E s \in DOMAIN last.prices, t \in DOMAIN positions :
          /\ get_position(positions, s)
          /\ positions[s].status = "OPEN"
          /\ positions[s].side = "SHORT"
          /\ positions[s].mark_price = last.prices[s]
          /\ positions[s].unrealized_pnl > 0
          /\ wallet.unrealized_pnl # 0
          /\ t # s
          /\ (t \notin DOMAIN last.prices \/ positions[t].status # "OPEN")

\* C14: the count in the emergency_stop event is the number of positions
\* the sweep closed.
C14_ReportedIsClosed ==
    sweep.runs > 0 => sweep.reported = Cardinality(sweep.closed)

\* C16: when a fatal condition surfaces (initialize() raises, or
\* DailyDrawdownExceededError is raised), a stop event has been emitted and
\* the exchange connection has been closed.
C16_GracefulBeforeFatal ==
    estep \in {"initialize_failed", "drawdown_exceeded"} =>
        (stop_emitted /\ exchange = "closed")

---------------------------------------------------------------------------
\* Claims about the listeners, checked under SpecEmit

\* the indices 1..n in order
RECURSIVE UpTo(_)
UpTo(n) == IF n = 0 THEN << >> ELSE Append(UpTo(n - 1), n)

\* a step in which an emit_event ends, by returning or by raising
EmissionEnds == emission'.active = FALSE /\ emission' # emission

\* C15: for every event kind and every list of listeners, emit_event calls
\* each listener registered for the kind exactly once, in registration
\* order, whichever of them raise, and no listener's exception leaves
\* emit_event.
C15_EveryListenerOnce ==
    [][ EmissionEnds =>
          /\ emission'.calls = UpTo(Len(event_handlers'[emission'.event]))
          /\ ~emission'.raised ]_vars

\* an emission over two listeners, the first of which raised, has ended
C15_Witness ==
    /\ ~emission.active
    /\ emission.event \in Events
    /\ Len(event_handlers[emission.event]) >= 2
    /\ event_handlers[emission.event][1].raises
    /\ emission.calls = <<1, 2>>

---------------------------------------------------------------------------
\* Claims about the risk manager, checked under SpecRisk

\* a step that is a call of operation op of the RiskManager
RiskCalled(op) == risk' # risk /\ risk'.last.op = op

\* |daily return %| >= threshold, the day having begun with a balance
AbsReturnReaches(threshold) ==
    /\ wallet.daily_start_balance # 0
    /\ Abs(wallet.daily_pnl) * 100 >= threshold * Abs(wallet.daily_start_balance)

\* C18: check_daily_drawdown() returns exactly one critical alert, and no
\* warning, if |daily return %| >= the shutdown threshold; else exactly one
\* warning alert if |daily return %| >= the warning threshold; else nothing.
C18_CriticalBeforeWarning ==
    [][ (risk.portfolio /\ RiskCalled("check_daily_drawdown")) =>
          LET expected == IF AbsReturnReaches(ShutdownThreshold) THEN "critical"
                          ELSE IF AbsReturnReaches(WarningThreshold) THEN "warning"
                          ELSE "none"
          IN /\ risk'.last.alert = expected
             /\ risk'.alert_history =
                  (IF expected = "none" THEN risk.alert_history
                   ELSE Append(risk.alert_history, expected)) ]_vars

\* a check at a loss of exactly the shutdown percentage returned one critical
\* alert
C18_Witness ==
    /\ risk.portfolio
    /\ risk.last.op = "check_daily_drawdown"
    /\ risk.last.alert = "critical"
    /\ risk.alert_history = <<"critical">>
    /\ wallet.daily_pnl * 100 = 0 - ShutdownThreshold * wallet.daily_start_balance

\* the daily drawdown, a negative return of the day, is at least threshold
\* percent of the day's starting balance
DrawdownReaches(threshold) ==
    /\ wallet.daily_start_balance > 0
    /\ wallet.daily_pnl < 0
    /\ (0 - wallet.daily_pnl) * 100 >= threshold * wallet.daily_start_balance

\* C19: should_stop_trading() returns true iff the daily drawdown >= the
\* shutdown threshold, or consecutive losses >= the limit, or the available
\* balance is below the floor; the reason is that of the first of these, in
\* this order, that holds.
C19_StopIffCondition ==
    risk.last.op = "should_stop_trading" /\ risk.portfolio =>
        LET drawdown == DrawdownReaches(ShutdownThreshold)
            losses == risk.consecutive_losses >= max_consecutive_losses
            floor == wallet.available_balance < BalanceFloor
        IN /\ risk.last.stop <=> (drawdown \/ losses \/ floor)
           /\ risk.last.reason = IF drawdown THEN "drawdown"
                                 ELSE IF losses THEN "consecutive_losses"
                                 ELSE IF floor THEN "balance"
                                 ELSE "none"

\* the closes at the end of h that lost, back to the last one that did not
RECURSIVE TrailingLosses(_)
TrailingLosses(h) ==
    IF h = << >> \/ h[Len(h)] >= 0 THEN 0
    ELSE 1 + TrailingLosses(SubSeq(h, 1, Len(h) - 1))

\* C20 as stated: the counter is the number of trailing losing closes, and
\* with five or more of them should_stop_trading() returns true with the
\* consecutive-losses reason.
C20_FiveLossesReason ==
    /\ risk.consecutive_losses = TrailingLosses(risk.closes)
    /\ (risk.last.op = "should_stop_trading" /\ risk.portfolio
            /\ TrailingLosses(risk.closes) >= max_consecutive_losses) =>
          (risk.last.stop /\ risk.last.reason = "consecutive_losses")

\* C20: after any sequence of on_position_closed calls the counter is the
\* number of trailing closes with realized PnL < 0 (a close with PnL >= 0,
\* zero included, resets it); with five or more of them should_stop_trading()
\* returns true, with the consecutive-losses reason unless |daily return %|
\* has reached the shutdown threshold, which is tested first and then gives
\* the reason; a further losing close raises the counter.
C20_TrailingLosses ==
    [][ /\ risk'.consecutive_losses = TrailingLosses(risk'.closes)
        /\ (RiskCalled("should_stop_trading") /\ risk.portfolio
                /\ TrailingLosses(risk.closes) >= max_consecutive_losses) =>
              /\ risk'.last.stop
              /\ risk'.last.reason =
                   (IF AbsReturnReaches(ShutdownThreshold) THEN "drawdown"
                    ELSE "consecutive_losses")
        /\ (RiskCalled("on_position_closed")
                /\ risk'.closes[Len(risk'.closes)] < 0
                /\ risk.consecutive_losses >= max_consecutive_losses) =>
              risk'.consecutive_losses = risk.consecutive_losses + 1 ]_vars

\* six losing closes in a row, and should_stop_trading() has answered with
\* the consecutive-losses reason
C20_Witness ==
    /\ risk.portfolio
    /\ Len(risk.closes) >= 6
    /\ risk.consecutive_losses = 6
    /\ risk.last.op = "should_stop_trading"
    /\ risk.last.stop
    /\ risk.last.reason = "consecutive_losses"

---------------------------------------------------------------------------
\* Claims about calculate_position_size, checked under SpecSizing

\* C21: calculate_position_size fails with an insufficient-balance error
\* when the requested notional (usd_amount) exceeds the available balance;
\* otherwise the notional of the returned size is at most the max-risk budget
\* available_balance * max_risk_pct / 100, the returned size is the requested
\* size usd_amount / price when the request was within the budget, and
\* adjusted is true iff the returned size is smaller than the requested one.
C21_PositionSize ==
    (risk.sizing.called /\ risk.sizing.raised # "RiskManagementError") =>
        LET s == risk.sizing
            pct == IF s.max_risk_pct = None THEN MaxPortfolioRisk ELSE s.max_risk_pct
            requested_size == DecimalDiv(s.usd_amount * Scale, s.price)
        IN IF s.usd_amount > wallet.available_balance
           THEN s.raised = "InsufficientBalanceError"
           ELSE /\ s.raised = "none"
                /\ s.size * s.price * 100 <= wallet.available_balance * pct * Scale
                /\ s.usd_amount * 100 <= wallet.available_balance * pct
                     => s.size = requested_size
                /\ s.adjusted <=> s.size < requested_size

---------------------------------------------------------------------------
\* Claims about should_open_short, checked under SpecStrategy

\* C22: with indicators enabled and at least one boolean signal computed,
\* should_open_short is true, under all_true, iff every boolean signal is
\* true; under majority_true, iff the true signals are strictly more than
\* half the boolean signals; under any_true, iff at least one is true.  With
\* no boolean signal, or indicators disabled, it is false.
C22_SignalLogic ==
    (strategy.called /\ ~strategy.error) =>
        LET sig == strategy.signals
            Bools == {s \in DOMAIN sig : sig[s] # "other"}
            Trues == {s \in Bools : sig[s] = "True"}
        IN IF ~strategy.enabled \/ Bools = {} THEN ~strategy.decision
           ELSE strategy.decision <=>
                  CASE strategy.signal_logic = "all_true" -> Trues = Bools
                    [] strategy.signal_logic = "majority_true" ->
                         Cardinality(Trues) + Cardinality(Trues) > Cardinality(Bools)
                    [] strategy.signal_logic = "any_true" -> Trues # {}

\* under the majority rule, a tie between two boolean signals, a third value
\* not being a bool, was decided false
C22_Witness ==
    /\ strategy.called
    /\ strategy.enabled
    /\ ~strategy.error
    /\ strategy.signal_logic = "majority_true"
    /\ Cardinality({s \in DOMAIN strategy.signals : strategy.signals[s] = "True"}) = 1
    /\ Cardinality({s \in DOMAIN strategy.signals : strategy.signals[s] = "False"}) = 1
    /\ Cardinality(DOMAIN strategy.signals) = 3
    /\ ~strategy.decision

\* C23: in the paper exchange, create_order for a symbol the exchange does
\* not list fails: it places no order, opens no position and leaves the
\* wallet as it was.
C23_UnlistedSymbolRejected ==
    [][(nops' # nops /\ last'.op = "create_order"
          /\ last'.symbol \in UnlistedSymbols)
        => /\ last'.ret = FALSE
           /\ orders' = orders
           /\ positions' = positions
           /\ wallet' = wallet]_vars

\* C24: the state of the case: a paper exchange with its starting balance
\* whose first call opened a short on symbol s by a market sell while the
\* ticker showed P = BasePrice(s), and whose second call marked the
\* positions to market with the ticker still at P.
C24_OpenedAndMarkedAt(s) ==
    /\ nops = 2
    /\ last.op = "update_positions_mark_prices"
    /\ s \in DOMAIN last.prices
    /\ last.prices[s] = BasePrice(s)
    /\ IsOpen(positions, s)
    /\ positions[s].side = "SHORT"
    /\ Len(orders) = 1

\* C24 as stated: after the open and the mark at the unchanged price P the
\* position's unrealized PnL is exactly 0 and the available balance is the
\* starting balance less margin and commission.
C24_ZeroPnlAtEntry ==
    \A s \in Symbols :
        C24_OpenedAndMarkedAt(s)
        => /\ positions[s].unrealized_pnl = 0
           /\ wallet.available_balance =
                 DemoBalance - positions[s].margin - orders[1].commission

\* C24, amended: the market sell is filled at the best bid, 0.1% below the
\* ticker price P, so after the mark at P the short shows an unrealized loss
\* of 0.1% of P per unit; the available balance is the starting balance less
\* the margin (5%) and the taker commission (0.04%) of the notional at the
\* fill price.
C24_SpreadLossAtEntry ==
    \A s \in Symbols :
        C24_OpenedAndMarkedAt(s)
        => LET P == BasePrice(s)
               p == positions[s]
               notional == p.size * p.entry_price
           IN /\ p.entry_price = P - (P \div 1000)
              /\ p.mark_price = P
              /\ p.unrealized_pnl = 0 - (P \div 1000) * p.size
              /\ wallet.unrealized_pnl = p.unrealized_pnl
              /\ p.margin = (notional * 5) \div 100
              /\ orders[1].commission = (notional * 4) \div 10000
              /\ wallet.available_balance =
                    DemoBalance - p.margin - orders[1].commission
              /\ wallet.margin_balance = p.margin + orders[1].commission

C24_Witness ==
    /\ C24_OpenedAndMarkedAt("ETHUSDT")
    /\ positions["ETHUSDT"].unrealized_pnl < 0

\* C25: whenever the exchange port, paper or live, accepts the opening
\* market sell of a scan cycle, then before the next candidate is examined
\* the engine's Portfolio holds an OPEN short position for that symbol and
\* the margin in use has increased.
C25_AcceptedSellBooked ==
    \A k \in DOMAIN scan.sells :
        scan.sells[k].accepted
        => scan.sells[k].opened /\ scan.sells[k].margin_up

\* C26: the number of OPEN positions never exceeds
\* settings.strategy.max_concurrent_positions, whatever the interleaving of
\* the scan loops, the monitors and the client's calls.
C26_PositionCeiling ==
    Cardinality(get_open_positions(positions)) <= max_concurrent_positions

C26_Witness ==
    /\ estep = "scan"
    /\ scan.ceiling
    /\ Cardinality(get_open_positions(positions)) = max_concurrent_positions
    /\ Len(scan.visited) < Len(TopGainers)

\* C27: the scan loop never submits an opening sell for a symbol that has an
\* OPEN position (nor two for one symbol in a cycle), and the Portfolio
\* holds at most one position per symbol: the one under the symbol's key.
C27_NoSellWhileOpen ==
    /\ \A k \in DOMAIN scan.sells : ~scan.sells[k].held
    /\ \A j, k \in DOMAIN scan.sells :
          scan.sells[j].symbol = scan.sells[k].symbol => j = k
    /\ \A s \in DOMAIN positions : positions[s].symbol = s

C27_Witness ==
    /\ estep = "scan"
    /\ IsOpen(positions, "ETHUSDT")
    /\ \E k \in DOMAIN scan.visited : scan.visited[k] = "ETHUSDT"
    /\ \A k \in DOMAIN scan.examined : scan.examined[k] # "ETHUSDT"
    /\ \A k \in DOMAIN scan.sells : scan.sells[k].symbol # "ETHUSDT"
    /\ scan.sells # << >>

\* C28: a scan cycle that begins with |daily return %| at the shutdown
\* threshold runs emergency_stop() and ends by a drawdown-exceeded failure
\* that leaves _process_scan_cycle for its caller, without asking for the
\* top gainers or examining a candidate.
C28_DrawdownPropagates ==
    (scan.drawdown /\ (scan.caught # "none" \/ scan.propagated # "none"))
    => /\ sweep.runs > 0
       /\ scan.propagated = "DailyDrawdownExceededError"
       /\ ~scan.fetched
       /\ scan.examined = << >>

\* C29: in a run where the realized losses reach the shutdown threshold
\* exactly one drawdown_critical event is emitted, and it comes before the
\* emergency_stop event and before the stop event that follow it.
C29_OneCriticalEvent ==
    LET critical == {k \in DOMAIN emitted : emitted[k] = "drawdown_critical"} IN
    /\ Cardinality(critical) <= 1
    /\ \A k \in DOMAIN emitted :
          emitted[k] = "emergency_stop"
          => k > 1 /\ emitted[k - 1] = "drawdown_critical"
    /\ \A k \in critical :
          \A j \in DOMAIN emitted :
             (j > k /\ emitted[j] = "stop") => emitted[k + 1] = "emergency_stop"

\* C30: an exception while a candidate is evaluated or opened does not end
\* the cycle: the loop reaches every candidate, in order, unless it ends at
\* the position ceiling or because the engine is no longer running.
C30_FailureDoesNotEndCycle ==
    (scan.fetched /\ scan.propagated = "none")
    => /\ Len(scan.visited) <= Len(TopGainers)
       /\ \A k \in DOMAIN scan.visited : scan.visited[k] = TopGainers[k]
       /\ \/ Len(scan.visited) = Len(TopGainers)
          \/ scan.ceiling
          \/ scan.stopped
       /\ \A k \in DOMAIN scan.failed :
             \E j \in DOMAIN scan.examined : scan.examined[j] = scan.failed[k]

C30_Witness ==
    /\ mode = "demo"
    /\ estep = "scan"
    /\ scan.failed # << >>
    /\ scan.failed[1] = "SOLUSDT"
    /\ \E j \in DOMAIN scan.examined : scan.examined[j] = "LINKUSDT"
    /\ ~scan.ceiling

---------------------------------------------------------------------------
\* Claims about the loops after a failed cycle

\* loop task i goes on: it is neither cancelled nor ended, and the engine is
\* running
LoopGoesOn(i) ==
    /\ running
    /\ state = "running"
    /\ ~tasks[i].must_cancel
    /\ ~Done(tasks, i)

\* C31: an exception in a scan cycle or a monitor pass, a cancellation
\* apart, does not end the loop: the task is left in its interval sleep,
\* and, as long as the engine is running and the task is not cancelled, it
\* begins a further cycle.
C31_LoopSurvivesFailure ==
    /\ [][ \A i \in DOMAIN tasks :
              (tasks'[i].failed /\ ~tasks[i].failed) => tasks'[i].pc = "sleep" ]_vars
    /\ \A i \in 1..(2 * MaxCalls) :
           (i \in DOMAIN tasks /\ tasks[i].failed)
               ~> (i \in DOMAIN tasks /\ (~tasks[i].failed \/ ~LoopGoesOn(i)))

\* a scan loop that has begun a further cycle after one that failed, and a
\* monitor in its sleep after a failed pass
C31_Witness ==
    /\ scan.caught = "BinanceAPIError"
    /\ running
    /\ state = "running"
    /\ \E i \in DOMAIN tasks :
          tasks[i].kind = "main" /\ tasks[i].pc = "cycle" /\ ~tasks[i].failed
    /\ \E i \in DOMAIN tasks :
          tasks[i].kind = "monitor" /\ tasks[i].pc = "sleep" /\ tasks[i].failed

\* the events of one kind in an event log
EventsOf(ev, kind) == {k \in DOMAIN ev : ev[k] = kind}

\* the positions a step takes from OPEN to LIQUIDATED
LiquidatedInStep ==
    {s \in DOMAIN positions \cap DOMAIN positions' :
        positions[s].status = "OPEN" /\ positions'[s].status = "LIQUIDATED"}

\* C32: on the paper and the live exchange alike, every position the monitor
\* loop liquidates causes exactly one position_liquidated event: a step emits
\* as many of them as it liquidates positions.
C32_LiquidationEvent ==
    [][ Cardinality(EventsOf(emitted', "position_liquidated"))
          = Cardinality(EventsOf(emitted, "position_liquidated"))
              + Cardinality(LiquidatedInStep) ]_vars

\* C33: at every suspension point of the scan loop, the monitor loop and
\* emergency_stop (the exchange calls and the sleeps), hence after a
\* cancellation there, the ledger is consistent: margin-in-use is at least
\* the sum of the margins of the OPEN positions, and every position that is
\* CLOSED or LIQUIDATED has had its PnL realized in the wallet.
C33_ConsistentAtAwaits ==
    /\ LedgerConsistent(positions, wallet)
    /\ sweep.consistent
    /\ \A k \in DOMAIN scan.sells : scan.sells[k].consistent

\* a scan loop cancelled inside the stop() of an emergency stop whose sweep
\* closed a position, after a monitor pass that liquidated one
C33_Witness ==
    /\ \E s \in DOMAIN positions : positions[s].status = "LIQUIDATED"
    /\ sweep.closed # {}
    /\ \A s \in sweep.closed : positions[s].status = "CLOSED"
    /\ \E i \in DOMAIN tasks :
          tasks[i].kind = "main" /\ tasks[i].must_cancel /\ InStop(tasks, i)

\* the loop tasks of one kind that are active: created and not ended, with
\* no cancellation pending
ActiveLoops(kind) ==
    {i \in DOMAIN tasks : /\ tasks[i].kind = kind
                          /\ ~Done(tasks, i)
                          /\ ~tasks[i].must_cancel}

\* C34: across any sequence of start(), stop() and emergency_stop() calls (a
\* start() after a drawdown stop and a second start() while running among
\* them), at most one scan-loop task and at most one position-monitor task
\* are active at any time.
C34_OneLoopEach ==
    /\ Cardinality(ActiveLoops("main")) <= 1
    /\ Cardinality(ActiveLoops("monitor")) <= 1

\* what create_order reserved when it opened the position of symbol s: the
\* margin and the commission of the opening order
RECURSIVE ReservedFor(_, _)
ReservedFor(ps, S) ==
    IF S = {} THEN 0
    ELSE LET s == CHOOSE x \in S : TRUE
         IN ps[s].margin + Rate(ps[s].size * ps[s].entry_price, 4, 10000)
              + ReservedFor(ps, S \ {s})

\* C36: in every reachable state of the paper-trading ledger, margin-in-use
\* is the sum of what was reserved for the positions that are OPEN; with no
\* position OPEN it is 0.
C36_MarginIsOpenReserve ==
    /\ wallet.margin_balance = ReservedFor(positions, get_open_positions(positions))
    /\ get_open_positions(positions) = {} => wallet.margin_balance = 0

\* C37: close_position(symbol, price, commission) on an OPEN position changes
\* the wallet balance by exactly the position's realized PnL, which is the
\* gross PnL ((entry - price) * size for a short, (price - entry) * size for a
\* long) less the commission, counted once.
C37_CloseRealizesOnce ==
    [][ (Called("close_position") /\ last'.ret) =>
          LET p == positions[last'.symbol]
              gross == IF p.side = "SHORT"
                       THEN (p.entry_price - last'.a) * p.size
                       ELSE (last'.a - p.entry_price) * p.size
          IN /\ positions'[last'.symbol].realized_pnl = gross - last'.b
             /\ wallet'.balance - wallet.balance
                  = positions'[last'.symbol].realized_pnl ]_vars

\* C39: in every reachable state of the paper-trading engine (opens,
\* mark-price updates, take-profit closes, emergency closes, liquidations)
\* the wallet's available balance is not negative.
C39_AvailableNotNegative == wallet.available_balance >= 0

\* C40: between daily resets, after any sequence of margin reservations and
\* releases, realize_pnl, close_position and liquidate_position, balance =
\* daily_start_balance + daily_pnl, so that daily_return_pct is the change
\* of the balance since the last reset_daily().
C40_DailyBaseline ==
    wallet.balance = wallet.daily_start_balance + wallet.daily_pnl

\* a PnL realized after a daily reset that followed a realized PnL
C40_Witness ==
    /\ wallet.daily_start_balance # DemoBalance
    /\ wallet.daily_pnl # 0
    /\ last.op \in {"close_position", "liquidate_position", "realize_pnl"}


\* ---------------------------------------------------------------------
\* Claims about a symbol whose position has ended

\* the symbols a scan cycle came to with the engine running and the ceiling
\* not reached
ReachedByScan(log) == {log.visited[k] : k \in DOMAIN log.visited}

\* C38: after a symbol's position is closed or liquidated the symbol is
\* eligible again: a scan cycle in which it shows a short signal, and comes
\* to it below the ceiling, leaves a new OPEN position on it.
C38_EndedSymbolReopens ==
    [][ \A i \in DOMAIN tasks, move \in Moves :
           ScanCycle(i, EngineSymbols, move)
              => \A s \in get_ended_positions(positions) \cap ReachedByScan(scan') :
                    IsOpen(positions', s) ]_vars


\* ---------------------------------------------------------------------
\* Claims about the scan loop during an emergency stop

\* the orders a step adds to Portfolio.orders
NewOrders ==
    IF Len(orders') > Len(orders)
    THEN {orders'[k] : k \in (Len(orders) + 1)..Len(orders')}
    ELSE {}

\* C35: once emergency_stop() has begun (state safe_shutdown or stopping) the
\* scan loop submits no opening sell until the engine is started again,
\* however the sweep and a scan cycle in progress are interleaved: no step
\* taken in one of these states adds a SELL order.
C35_NoSellInEmergency ==
    [][ (state \in {"safe_shutdown", "stopping"})
           => (\A o \in NewOrders : o.side # "SELL") ]_vars

\* on a quiet market the daily return stays inside the warning threshold
QuietReturn == ~daily_return_reaches(wallet, WarningThreshold)

=============================================================================
